---- MODULE Spec2Model ----
(***************************************************************************)
(* Model of lens: the result tree (models/tree.rs), the event reducer      *)
(* (app/events.rs, app/actions.rs), the driving loop (main.rs) and the     *)
(* vitest runner adapter (runner/vitest.rs).                               *)
(*                                                                         *)
(* Conventions.                                                            *)
(*  - A Rust String / PathBuf is a tuple of one-character strings, so that *)
(*    strip_prefix, trim_start_matches and split(" > ") are computed.      *)
(*  - Option<T> is a tuple of length at most one: <<>> is None, <<v>> is   *)
(*    Some(v).                                                             *)
(*  - Node ids are positions in TestTree::nodes; the model counts from 1   *)
(*    where the Vec counts from 0 (model id n is Rust id n-1).             *)
(***************************************************************************)
EXTENDS Integers, Sequences, FiniteSets, TLC

(***************************************************************************)
(* Bounds of the model.                                                    *)
(***************************************************************************)
MaxSteps == 3        \* Spec: keys and injected events per behaviour
MaxRunnerKeys == 3   \* SpecRunner: keys per behaviour
MaxRunnerTasks == 3  \* SpecRunner: tasks per behaviour, the discovery task included
MaxRunnerLines == 1  \* SpecRunner: lines a child process writes to standard output
MaxTreeSteps == 3    \* SpecTree: keys, events and scope changes per behaviour
MaxRunTests == 2     \* SpecRun: tests of the file that is run
MaxAddChildSteps == 3    \* SpecAddChild: events and add_child calls per behaviour
MaxNavSteps == 4         \* SpecNav: keys and events per behaviour
MaxFilterSteps == 5      \* SpecFilter: keys and events per behaviour
MaxStackLen == 7         \* SpecStack: characters of the stack text
MaxStackCalls == 1       \* SpecStack: calls of the parser
MaxFilesKeys == 3        \* SpecFiles: key presses
MaxFilesTasks == 3       \* SpecFiles: tasks, the discovery task included
MaxFilesLines == 1       \* SpecFiles: lines read from one child
MaxOverlapKeys == 2      \* SpecOverlap: key presses
MaxOverlapTasks == 3     \* SpecOverlap: tasks, the discovery task included
MaxOverlapLines == 3     \* SpecOverlap: lines read from one child
MaxLiveKeys == 1         \* SpecLive: key presses
MaxLiveTasks == 2        \* SpecLive: tasks, the discovery task included
MaxLiveLines == 3        \* SpecLive: lines read from one child
MaxFailedSteps == 5      \* SpecFailedList: events and key presses
MaxDiscoveryKeys == 2    \* SpecDiscovery: keys per behaviour
MaxDiscoveryTasks == 2   \* SpecDiscovery: tasks per behaviour, the discovery task included
MaxDiscoveryLines == 1   \* SpecDiscovery: lines a child process writes to standard output
MaxStreamTasks == 2  \* SpecStream: tasks per behaviour, the discovery task included
MaxStreamLines == 2  \* SpecStream: lines a child process writes to standard output
MaxConcurrentKeys == 4   \* SpecConcurrent: keys per behaviour
MaxConcurrentTasks == 4  \* SpecConcurrent: tasks per behaviour, the discovery task included
MaxConcurrentLines == 1  \* SpecConcurrent: lines a child process writes to standard output

(***************************************************************************)
(* Strings.                                                                *)
(***************************************************************************)
None == <<>>
Some(v) == <<v>>

WORKSPACE == <<"/", "w">>
SEPARATOR == <<" ", ">", " ">>

starts_with(s, p) ==
    /\ Len(s) >= Len(p)
    /\ SubSeq(s, 1, Len(p)) = p

strip_prefix(s, p) ==
    IF starts_with(s, p) THEN Some(SubSeq(s, Len(p) + 1, Len(s))) ELSE None

unwrap_or(o, d) == IF Len(o) > 0 THEN o[1] ELSE d

RECURSIVE trim_start_matches(_, _)
trim_start_matches(s, c) ==
    IF Len(s) > 0 /\ s[1] = c THEN trim_start_matches(Tail(s), c) ELSE s

RECURSIVE split(_, _)
split(s, sep) ==
    LET hits == {i \in 1..(Len(s) - Len(sep) + 1) : SubSeq(s, i, i + Len(sep) - 1) = sep}
    IN  IF hits = {}
        THEN <<s>>
        ELSE LET i == CHOOSE h \in hits : \A k \in hits : h <= k
             IN  <<SubSeq(s, 1, i - 1)>> \o split(SubSeq(s, i + Len(sep), Len(s)), sep)

(***************************************************************************)
(* models/status.rs                                                        *)
(***************************************************************************)
TestStatus == {"Pending", "Running", "Passed", "Failed", "Skipped"}

\* mutant of is_terminal: only Failed counts as terminal
is_terminal_failed_only(s) == s = "Failed"

is_terminal(s) == s \in {"Passed", "Failed"}

priority(s) ==
    CASE s = "Failed"  -> 4
      [] s = "Running" -> 3
      [] s = "Pending" -> 2
      [] s = "Passed"  -> 1
      [] s = "Skipped" -> 0

(***************************************************************************)
(* models/tree.rs                                                          *)
(***************************************************************************)
TestTree_new == [nodes |-> <<>>, root_ids |-> <<>>]

add_node(tree, kind, name, path, parent) ==
    [tree EXCEPT !.nodes = Append(@,
        [id             |-> Len(tree.nodes) + 1,
         parent         |-> parent,
         children       |-> <<>>,
         kind           |-> kind,
         name           |-> name,
         path           |-> path,
         status         |-> "Pending",
         result         |-> None,
         expanded       |-> (kind # "Test"),
         console_output |-> <<>>,
         location       |-> None])]

add_root(tree, kind, name, path) ==
    LET t == add_node(tree, kind, name, path, None)
    IN  [t EXCEPT !.root_ids = Append(@, Len(t.nodes))]

\* variant that leaves the new node out of its parent's children
add_child_unlinked(tree, parent_id, kind, name, path) ==
    add_node(tree, kind, name, path, Some(parent_id))

add_child(tree, parent_id, kind, name, path) ==
    LET t == add_node(tree, kind, name, path, Some(parent_id))
    IN  [t EXCEPT !.nodes[parent_id].children = Append(@, Len(t.nodes))]

\* first element of ids whose node carries the name, as an Option
find_by_name(tree, ids, name) ==
    LET hits == {i \in 1..Len(ids) :
                    ids[i] \in 1..Len(tree.nodes) /\ tree.nodes[ids[i]].name = name}
    IN  IF hits = {}
        THEN None
        ELSE Some(ids[CHOOSE h \in hits : \A k \in hits : h <= k])

find_child_by_name(tree, parent, name) ==
    IF parent \in 1..Len(tree.nodes)
    THEN find_by_name(tree, tree.nodes[parent].children, name)
    ELSE None

\* mutant of find_root_by_name: the scan compares the stored path, not the name
find_root_by_path(tree, name) ==
    LET hits == {i \in 1..Len(tree.root_ids) :
                    tree.nodes[tree.root_ids[i]].path = Some(name)}
    IN  IF hits = {}
        THEN None
        ELSE Some(tree.root_ids[CHOOSE h \in hits : \A k \in hits : h <= k])

find_root_by_name(tree, name) == find_by_name(tree, tree.root_ids, name)

\* an aggregate that keeps the first child's status
higher_priority_first(a, b) == a
higher_priority(a, b) == IF priority(b) > priority(a) THEN b ELSE a

RECURSIVE fold_status(_, _, _)
fold_status(tree, ids, acc) ==
    IF ids = <<>>
    THEN acc
    ELSE LET s == tree.nodes[Head(ids)].status
         IN  fold_status(tree, Tail(ids),
                         IF acc = None THEN Some(s) ELSE Some(higher_priority(acc[1], s)))

RECURSIVE propagate_status(_, _)
propagate_status(tree, id) ==
    IF id \notin 1..Len(tree.nodes) \/ tree.nodes[id].parent = None
    THEN tree
    ELSE LET parent_id == tree.nodes[id].parent[1]
             aggregate == fold_status(tree, tree.nodes[parent_id].children, None)
             t         == IF aggregate = None
                          THEN tree
                          ELSE [tree EXCEPT !.nodes[parent_id].status = aggregate[1]]
         IN  propagate_status(t, parent_id)

update_result(tree, id, result) ==
    LET t == IF id \in 1..Len(tree.nodes)
             THEN [tree EXCEPT !.nodes[id].status = result.status,
                               !.nodes[id].result = Some(result)]
             ELSE tree
    IN  propagate_status(t, id)

failed_nodes(tree) ==
    SelectSeq([i \in 1..Len(tree.nodes) |-> i],
              LAMBDA i : tree.nodes[i].kind = "Test" /\ tree.nodes[i].status = "Failed")

\* a reset of the statuses that keeps the results
reset_status_only(tree) ==
    [tree EXCEPT !.nodes = [i \in 1..Len(tree.nodes) |->
        [tree.nodes[i] EXCEPT !.status = "Pending"]]]
reset(tree) ==
    [tree EXCEPT !.nodes = [i \in 1..Len(tree.nodes) |->
        [tree.nodes[i] EXCEPT !.status = "Pending",
                              !.result = None,
                              !.console_output = <<>>]]]

RECURSIVE collect_visible(_, _, _)
RECURSIVE collect_visible_children(_, _, _)
\* variant that descends into collapsed nodes too
collect_visible_all(tree, id, depth) ==
    <<<<id, depth>>>> \o collect_visible_children(tree, tree.nodes[id].children, depth + 1)

collect_visible(tree, id, depth) ==
    <<<<id, depth>>>> \o
        (IF tree.nodes[id].expanded
         THEN collect_visible_children(tree, tree.nodes[id].children, depth + 1)
         ELSE <<>>)

collect_visible_children(tree, ids, depth) ==
    IF ids = <<>>
    THEN <<>>
    ELSE collect_visible(tree, Head(ids), depth) \o
         collect_visible_children(tree, Tail(ids), depth)

visible_nodes(tree) == collect_visible_children(tree, tree.root_ids, 0)

\* char::to_lowercase over the letters the model's names use
to_lowercase_char(c) ==
    CASE c = "A" -> "a"
      [] c = "B" -> "b"
      [] OTHER   -> c

\* a comparison that keeps the case
to_lowercase_keeps_case(s) == s
to_lowercase(s) == [i \in 1..Len(s) |-> to_lowercase_char(s[i])]

contains(s, q) ==
    \E i \in 1..(Len(s) - Len(q) + 1) : SubSeq(s, i, i + Len(q) - 1) = q

RECURSIVE collect_filtered(_, _, _)
collect_filtered(tree, ids, query_lower) ==
    IF ids = <<>>
    THEN <<>>
    ELSE (IF contains(to_lowercase(tree.nodes[Head(ids)].name), query_lower)
          THEN collect_visible(tree, Head(ids), 0)
          ELSE <<>>) \o collect_filtered(tree, Tail(ids), query_lower)

visible_nodes_filtered(tree, query) ==
    collect_filtered(tree, tree.root_ids, to_lowercase(query))

toggle_expanded(tree, id) ==
    IF id \in 1..Len(tree.nodes)
    THEN [tree EXCEPT !.nodes[id].expanded = ~@]
    ELSE tree

expand_all(tree) ==
    [tree EXCEPT !.nodes = [i \in 1..Len(tree.nodes) |->
        [tree.nodes[i] EXCEPT !.expanded = IF tree.nodes[i].children # <<>> THEN TRUE ELSE @]]]

collapse_all(tree) ==
    [tree EXCEPT !.nodes = [i \in 1..Len(tree.nodes) |->
        [tree.nodes[i] EXCEPT !.expanded = FALSE]]]

(***************************************************************************)
(* app/mod.rs: the App struct                                              *)
(***************************************************************************)
App_new ==
    [tree                |-> TestTree_new,
     active_panel        |-> "TestTree",
     selected_tree_index |-> 0,
     selected_failed_index  |-> 0,
     tree_scroll_offset     |-> 0,
     failed_scroll_offset   |-> 0,
     tree_viewport_height   |-> 0,
     failed_viewport_height |-> 0,
     running             |-> FALSE,
     full_run            |-> FALSE,
     watch_mode          |-> FALSE,
     watch_handle        |-> None,
     watch_scope         |-> [kind |-> "None"],
     watched_ids         |-> {},
     watched_ids_stale   |-> FALSE,
     progress_total      |-> 0,
     progress_done       |-> 0,
     output_lines        |-> <<>>,
     pending_runs        |-> <<>>,
     filter_active       |-> FALSE,
     filter_query        |-> <<>>,
     should_quit         |-> FALSE,
     discovering         |-> TRUE,
     summary             |-> None,
     run_start           |-> None]

visible_tree_nodes(app) ==
    IF app.filter_query = <<>>
    THEN visible_nodes(app.tree)
    ELSE visible_nodes_filtered(app.tree, app.filter_query)

\* usize::saturating_sub and Ord::min
saturating_sub(a, b) == IF a > b THEN a - b ELSE 0

\* variant without the clamp
min_unclamped(a, b) == a

min(a, b) == IF a < b THEN a ELSE b

adjust_tree_scroll(app) ==
    IF app.tree_viewport_height = 0
    THEN app
    ELSE IF app.selected_tree_index < app.tree_scroll_offset
         THEN [app EXCEPT !.tree_scroll_offset = app.selected_tree_index]
         ELSE IF app.selected_tree_index >= app.tree_scroll_offset + app.tree_viewport_height
              THEN [app EXCEPT !.tree_scroll_offset =
                        app.selected_tree_index - app.tree_viewport_height + 1]
              ELSE app

adjust_failed_scroll(app) ==
    IF app.failed_viewport_height = 0
    THEN app
    ELSE IF app.selected_failed_index < app.failed_scroll_offset
         THEN [app EXCEPT !.failed_scroll_offset = app.selected_failed_index]
         ELSE IF app.selected_failed_index
                    >= app.failed_scroll_offset + app.failed_viewport_height
              THEN [app EXCEPT !.failed_scroll_offset =
                        app.selected_failed_index - app.failed_viewport_height + 1]
              ELSE app

\* Path::strip_prefix: whole components only; Some(rest) or None
path_strip_prefix(p, base) ==
    IF starts_with(p, base) /\ (Len(p) = Len(base) \/ p[Len(base) + 1] = "/")
    THEN Some(trim_start_matches(SubSeq(p, Len(base) + 1, Len(p)), "/"))
    ELSE None

\* the first root that matches, as an Option
RECURSIVE find_file_in(_, _, _, _)
find_file_in(tree, ids, rel_str, scope_path) ==
    IF ids = <<>>
    THEN None
    ELSE IF \/ tree.nodes[Head(ids)].name = rel_str
            \/ tree.nodes[Head(ids)].path = Some(scope_path)
         THEN Some(Head(ids))
         ELSE find_file_in(tree, Tail(ids), rel_str, scope_path)

find_file_node(tree, workspace, scope_path) ==
    find_file_in(tree, tree.root_ids,
                 unwrap_or(path_strip_prefix(scope_path, workspace), scope_path), scope_path)

\* variant that stops at the children of the node
collect_subtree_shallow(tree, id) ==
    {id} \cup {tree.nodes[id].children[k] : k \in 1..Len(tree.nodes[id].children)}

RECURSIVE collect_subtree(_, _)
collect_subtree(tree, id) ==
    {id} \cup UNION {collect_subtree(tree, tree.nodes[id].children[k]) :
                        k \in 1..Len(tree.nodes[id].children)}

\* mod.rs 213-220: the ancestors from cur up to, and without, the file node
RECURSIVE ancestors_below(_, _, _)
ancestors_below(tree, cur, file_id) ==
    IF cur = None \/ cur = Some(file_id)
    THEN {}
    ELSE {cur[1]} \cup ancestors_below(tree, tree.nodes[cur[1]].parent, file_id)

\* mod.rs 202-224: what the walk from node id adds to the set
RECURSIVE watched_below(_, _, _, _)
watched_below(tree, file_id, id, watch_name) ==
    IF tree.nodes[id].kind \in {"Test", "Suite"} /\ tree.nodes[id].name = watch_name
    THEN collect_subtree(tree, id) \cup ancestors_below(tree, tree.nodes[id].parent, file_id)
    ELSE UNION {watched_below(tree, file_id, tree.nodes[id].children[k], watch_name) :
                    k \in 1..Len(tree.nodes[id].children)}

compute_watched_ids(tree, workspace, scope) ==
    CASE scope.kind \in {"None", "All"} -> {}
      [] scope.kind = "File" ->
            LET file_id == find_file_node(tree, workspace, scope.path)
            IN  IF file_id # None THEN collect_subtree(tree, file_id[1]) ELSE {}
      [] scope.kind = "Test" ->
            LET file_id == find_file_node(tree, workspace, scope.file)
            IN  IF file_id # None
                THEN {file_id[1]} \cup
                     UNION {watched_below(tree, file_id[1],
                                          tree.nodes[file_id[1]].children[k], scope.name) :
                                k \in 1..Len(tree.nodes[file_id[1]].children)}
                ELSE {}

\* App::refresh_watched_ids
refresh_watched_ids(app) ==
    [app EXCEPT !.watched_ids_stale = FALSE,
                !.watched_ids = compute_watched_ids(app.tree, WORKSPACE, app.watch_scope)]

(***************************************************************************)
(* app/events.rs: the reducer of runner events                             *)
(***************************************************************************)
file_display_name(path) ==
    trim_start_matches(unwrap_or(strip_prefix(path, WORKSPACE), path), "/")

\* both find_or_create functions return the tree together with the id
find_or_create_file_node(tree, display_name, path) ==
    LET found == find_root_by_name(tree, display_name)
    IN  IF found # None
        THEN [tree |-> tree, id |-> found[1]]
        ELSE LET t == add_root(tree, "File", display_name, Some(path))
             IN  [tree |-> t, id |-> Len(t.nodes)]

RECURSIVE find_or_create_parts(_, _, _)
find_or_create_parts(tree, parent_id, parts) ==
    IF parts = <<>>
    THEN [tree |-> tree, id |-> parent_id]
    ELSE LET is_last == Len(parts) = 1
             kind    == IF is_last THEN "Test" ELSE "Suite"
             found   == find_child_by_name(tree, parent_id, Head(parts))
         IN  IF found # None
             THEN find_or_create_parts(tree, found[1], Tail(parts))
             ELSE LET t == add_child(tree, parent_id, kind, Head(parts), None)
                  IN  find_or_create_parts(t, Len(t.nodes), Tail(parts))

find_or_create_test_node(tree, file_id, full_name) ==
    find_or_create_parts(tree, file_id, split(full_name, SEPARATOR))

RECURSIVE discover_files(_, _)
discover_files(tree, files) ==
    IF files = <<>>
    THEN tree
    ELSE discover_files(find_or_create_file_node(tree, Head(files), Head(files)).tree,
                        Tail(files))

dominated(tree, test_id, result) ==
    /\ result.status = "Skipped"
    /\ test_id \in 1..Len(tree.nodes)
    /\ is_terminal(tree.nodes[test_id].status)

\* history helper: TRUE when handling e reaches update_result (events.rs 104-106)
updates_result(app, e) ==
    /\ e.type = "TestFinished"
    /\ LET f == find_or_create_file_node(app.tree, file_display_name(e.file), e.file)
           t == find_or_create_test_node(f.tree, f.id, e.name)
       IN  ~dominated(t.tree, t.id, e.result)

\* elapsed is the reading of run_start.elapsed() taken by RunFinished
\* variant that stores the duration only
stored_summary_duration_only(summary, run_start, elapsed) ==
    [total |-> 0, passed |-> 0, failed |-> 0, skipped |-> 0,
     duration |-> IF run_start # None THEN elapsed ELSE summary.duration]

\* events.rs 132-137: the summary with the duration measured by the loop
stored_summary(summary, run_start, elapsed) ==
    [summary EXCEPT !.duration = IF run_start # None THEN elapsed ELSE @]

handle_test_event(app, e, elapsed) ==
    CASE e.type = "RunStarted" ->
            [app EXCEPT !.tree = IF app.full_run THEN reset(@) ELSE @,
                        !.output_lines = IF app.full_run THEN <<>> ELSE @,
                        !.progress_total = 0,
                        !.progress_done = 0,
                        !.running = TRUE]
      [] e.type = "TestsCollected" ->
            [app EXCEPT !.progress_total = @ + e.count]
      [] e.type = "FileStarted" ->
            [app EXCEPT !.tree =
                find_or_create_file_node(@, file_display_name(e.path), e.path).tree]
      [] e.type = "TestStarted" ->
            LET f == find_or_create_file_node(app.tree, file_display_name(e.file), e.file)
                t == find_or_create_test_node(f.tree, f.id, e.name)
            IN  [app EXCEPT !.tree = [t.tree EXCEPT !.nodes[t.id].status = "Running"]]
      [] e.type = "TestFinished" ->
            LET f  == find_or_create_file_node(app.tree, file_display_name(e.file), e.file)
                t  == find_or_create_test_node(f.tree, f.id, e.name)
                t2 == IF dominated(t.tree, t.id, e.result)
                      THEN t.tree
                      ELSE update_result(t.tree, t.id, e.result)
                t3 == IF e.location # None
                      THEN [t2 EXCEPT !.nodes[t.id].location = e.location]
                      ELSE t2
            IN  [app EXCEPT !.progress_done = @ + 1, !.tree = t3]
      [] e.type = "SuiteLocation" ->
            LET f == find_or_create_file_node(app.tree, file_display_name(e.file), e.file)
                t == find_or_create_test_node(f.tree, f.id, e.name)
            IN  [app EXCEPT !.tree = [t.tree EXCEPT !.nodes[t.id].location = Some(e.location)]]
      [] e.type = "FileFinished" -> app
      [] e.type = "RunFinished" ->
            [app EXCEPT !.running = FALSE,
                        !.full_run = FALSE,
                        !.summary = Some(stored_summary(e.summary, app.run_start, elapsed))]
      [] e.type = "ConsoleLog" ->
            LET f == find_or_create_file_node(app.tree, file_display_name(e.file), e.file)
            IN  [app EXCEPT !.tree =
                    [f.tree EXCEPT !.nodes[f.id].console_output = Append(@, e.content)]]
      [] e.type = "Output" ->
            [app EXCEPT !.output_lines = Append(@, e.line)]
      [] e.type = "Error" ->
            [app EXCEPT !.output_lines = Append(@, <<"[ERROR] ", e.message>>)]
      [] e.type = "WatchStopped" ->
            [app EXCEPT !.watch_mode = FALSE,
                        !.watch_handle = None,
                        !.running = FALSE]
      [] e.type = "DiscoveryComplete" ->
            [app EXCEPT !.tree = discover_files(@, e.files),
                        !.discovering = FALSE]

(***************************************************************************)
(* app/actions.rs: the reducer of user actions                             *)
(***************************************************************************)
RECURSIVE set_running_status(_, _)
RECURSIVE set_running_status_all(_, _)
set_running_status(tree, node_id) ==
    IF node_id \in 1..Len(tree.nodes)
    THEN set_running_status_all([tree EXCEPT !.nodes[node_id].status = "Running"],
                                tree.nodes[node_id].children)
    ELSE tree

set_running_status_all(tree, ids) ==
    IF ids = <<>>
    THEN tree
    ELSE set_running_status_all(set_running_status(tree, Head(ids)), Tail(ids))

\* PathBuf::is_absolute / PathBuf::join on the character tuples
is_absolute(p) == Len(p) > 0 /\ p[1] = "/"

join(base, p) == IF is_absolute(p) THEN p ELSE base \o <<"/">> \o p

resolve_file_path(tree, node_id) ==
    IF node_id \in 1..Len(tree.nodes)
    THEN LET node == tree.nodes[node_id]
         IN  IF node.path # None
             THEN (IF is_absolute(node.path[1])
                   THEN node.path[1]
                   ELSE join(WORKSPACE, node.path[1]))
             ELSE join(WORKSPACE, node.name)
    ELSE WORKSPACE

\* the File node reached by walking parent links from id, as an Option
RECURSIVE owning_file(_, _)
owning_file(tree, id) ==
    IF id \notin 1..Len(tree.nodes)
    THEN None
    ELSE IF tree.nodes[id].kind = "File"
         THEN Some(id)
         ELSE IF tree.nodes[id].parent = None
              THEN None
              ELSE owning_file(tree, tree.nodes[id].parent[1])

resolve_test_path(tree, node_id) ==
    LET test_name == IF node_id \in 1..Len(tree.nodes)
                     THEN tree.nodes[node_id].name
                     ELSE <<>>
        file_id   == owning_file(tree, node_id)
    IN  [file |-> IF file_id # None THEN resolve_file_path(tree, file_id[1]) ELSE WORKSPACE,
         name |-> test_name]

\* one File run request per failed test
rerun_requests_per_test(tree, ids, seen_files) ==
    [k \in 1..Len(ids) |-> [kind |-> "File", file |-> resolve_test_path(tree, ids[k]).file]]

\* the File run requests of RerunFailed: one per file path not seen before
RECURSIVE rerun_requests(_, _, _)
rerun_requests(tree, ids, seen_files) ==
    IF ids = <<>>
    THEN <<>>
    ELSE LET file_path == resolve_test_path(tree, Head(ids)).file
         IN  IF file_path \in seen_files
             THEN rerun_requests(tree, Tail(ids), seen_files)
             ELSE <<[kind |-> "File", file |-> file_path]>> \o
                  rerun_requests(tree, Tail(ids), seen_files \cup {file_path})

\* the keys of Action::FilterInput(c) and their characters
FilterChar == [a \in {"FilterInput(A)"} |-> "A"]

\* actions.rs 99, 118: half a page, at least one row
half(app) == IF app.tree_viewport_height \div 2 > 1 THEN app.tree_viewport_height \div 2 ELSE 1

\* actions.rs 200-202, 217-219: row i (from 0) of the list exists and is a File node
is_file_row(app, nodes, i) ==
    /\ i + 1 <= Len(nodes)
    /\ app.tree.nodes[nodes[i + 1][1]].kind = "File"

\* Iterator::position over the ids of the rows, from 0
position(nodes, id) ==
    LET S == {i \in 1..Len(nodes) : nodes[i][1] = id}
    IN  IF S = {} THEN None ELSE Some((CHOOSE i \in S : \A j \in S : i <= j) - 1)

handle_action(app, action) ==
    CASE action = "Quit" ->
            [app EXCEPT !.should_quit = TRUE]
      [] action = "Select" ->
            LET nodes == visible_tree_nodes(app)
            IN  IF app.active_panel = "TestTree" /\ app.selected_tree_index + 1 <= Len(nodes)
                THEN LET node_id == nodes[app.selected_tree_index + 1][1]
                         node    == app.tree.nodes[node_id]
                     IN  CASE node.kind = "File" ->
                                [app EXCEPT
                                    !.tree = set_running_status(@, node_id),
                                    !.pending_runs = Append(@,
                                        [kind |-> "File",
                                         file |-> resolve_file_path(app.tree, node_id)])]
                           [] node.kind \in {"Test", "Suite"} ->
                                [app EXCEPT
                                    !.tree = set_running_status(@, node_id),
                                    !.pending_runs = Append(@,
                                        [kind |-> "Test",
                                         file |-> resolve_test_path(app.tree, node_id).file,
                                         name |-> resolve_test_path(app.tree, node_id).name])]
                           [] OTHER ->
                                IF node.children # <<>>
                                THEN [app EXCEPT !.tree = toggle_expanded(@, node_id)]
                                ELSE app
                ELSE app
      [] action = "NavigateDown" ->
            \* detail_scroll_offset is not part of the model's App
            CASE app.active_panel = "TestTree" ->
                    LET max == saturating_sub(Len(visible_tree_nodes(app)), 1)
                    IN  adjust_tree_scroll(
                            [app EXCEPT !.selected_tree_index = min(@ + 1, max)])
              [] app.active_panel = "FailedList" ->
                    LET max == saturating_sub(Len(failed_nodes(app.tree)), 1)
                    IN  adjust_failed_scroll(
                            [app EXCEPT !.selected_failed_index = min(@ + 1, max)])
              [] OTHER -> app
      [] action = "NavigateUp" ->
            CASE app.active_panel = "TestTree" ->
                    adjust_tree_scroll(
                        [app EXCEPT !.selected_tree_index = saturating_sub(@, 1)])
              [] app.active_panel = "FailedList" ->
                    adjust_failed_scroll(
                        [app EXCEPT !.selected_failed_index = saturating_sub(@, 1)])
              [] OTHER -> app
      [] action = "ScrollUp" ->
            CASE app.active_panel = "TestTree" ->
                    adjust_tree_scroll(
                        [app EXCEPT !.selected_tree_index = saturating_sub(@, half(app))])
              [] app.active_panel = "FailedList" ->
                    adjust_failed_scroll(
                        [app EXCEPT !.selected_failed_index = saturating_sub(@, half(app))])
              [] OTHER -> app
      [] action = "ScrollDown" ->
            CASE app.active_panel = "TestTree" ->
                    LET max == saturating_sub(Len(visible_tree_nodes(app)), 1)
                    IN  adjust_tree_scroll(
                            [app EXCEPT !.selected_tree_index = min(@ + half(app), max)])
              [] app.active_panel = "FailedList" ->
                    LET max == saturating_sub(Len(failed_nodes(app.tree)), 1)
                    IN  adjust_failed_scroll(
                            [app EXCEPT !.selected_failed_index = min(@ + half(app), max)])
              [] OTHER -> app
      [] action = "FocusNext" ->
            [app EXCEPT !.active_panel =
                CASE @ = "TestTree"   -> "FailedList"
                  [] @ = "FailedList" -> "Detail"
                  [] @ = "Detail"     -> "TestTree"]
      [] action = "FocusPrevious" ->
            [app EXCEPT !.active_panel =
                CASE @ = "TestTree"   -> "Detail"
                  [] @ = "FailedList" -> "TestTree"
                  [] @ = "Detail"     -> "FailedList"]
      [] action = "ExpandAll" ->
            IF app.active_panel = "TestTree"
            THEN [app EXCEPT !.tree = expand_all(@)]
            ELSE app
      [] action = "JumpToStart" ->
            CASE app.active_panel = "TestTree" ->
                    [app EXCEPT !.selected_tree_index = 0, !.tree_scroll_offset = 0]
              [] app.active_panel = "FailedList" ->
                    [app EXCEPT !.selected_failed_index = 0, !.failed_scroll_offset = 0]
              [] OTHER -> app
      [] action = "JumpToEnd" ->
            CASE app.active_panel = "TestTree" ->
                    adjust_tree_scroll(
                        [app EXCEPT !.selected_tree_index =
                            saturating_sub(Len(visible_tree_nodes(app)), 1)])
              [] app.active_panel = "FailedList" ->
                    adjust_failed_scroll(
                        [app EXCEPT !.selected_failed_index =
                            saturating_sub(Len(failed_nodes(app.tree)), 1)])
              [] OTHER -> app
      [] action = "JumpToPrevFile" ->
            LET nodes == visible_tree_nodes(app)
                found == {i \in 0..(app.selected_tree_index - 1) : is_file_row(app, nodes, i)}
            IN  IF app.active_panel = "TestTree" /\ found # {}
                THEN adjust_tree_scroll(
                        [app EXCEPT !.selected_tree_index =
                            CHOOSE i \in found : \A j \in found : j <= i])
                ELSE app
      [] action = "JumpToNextFile" ->
            LET nodes == visible_tree_nodes(app)
                found == {i \in (app.selected_tree_index + 1)..(Len(nodes) - 1) :
                            is_file_row(app, nodes, i)}
            IN  IF app.active_panel = "TestTree" /\ found # {}
                THEN adjust_tree_scroll(
                        [app EXCEPT !.selected_tree_index =
                            CHOOSE i \in found : \A j \in found : i <= j])
                ELSE app
      [] action = "Collapse" ->
            LET nodes == visible_tree_nodes(app)
            IN  IF app.active_panel = "TestTree" /\ app.selected_tree_index + 1 <= Len(nodes)
                THEN LET node_id == nodes[app.selected_tree_index + 1][1]
                         node    == app.tree.nodes[node_id]
                     IN  IF node.expanded /\ node.children # <<>>
                         THEN [app EXCEPT !.tree = toggle_expanded(@, node_id)]
                         ELSE IF node.parent # None
                              THEN LET a   == [app EXCEPT !.tree =
                                                toggle_expanded(@, node.parent[1])]
                                       pos == position(visible_tree_nodes(a), node.parent[1])
                                   IN  IF pos # None
                                       THEN [a EXCEPT !.selected_tree_index = pos[1]]
                                       ELSE a
                              ELSE app
                ELSE app
      [] action = "FilterEnter" ->
            [app EXCEPT !.filter_active = TRUE]
      [] action = "FilterBackspace" ->
            [app EXCEPT !.filter_query = IF @ = <<>> THEN @ ELSE SubSeq(@, 1, Len(@) - 1)]
      [] action = "FilterExit" ->
            [app EXCEPT !.filter_query = <<>>, !.filter_active = FALSE]
      [] action = "FilterApply" ->
            [app EXCEPT !.filter_active = FALSE]
      [] action = "Expand" ->
            LET nodes == visible_tree_nodes(app)
            IN  IF /\ app.active_panel = "TestTree"
                   /\ app.selected_tree_index + 1 <= Len(nodes)
                   /\ app.tree.nodes[nodes[app.selected_tree_index + 1][1]].children # <<>>
                THEN [app EXCEPT !.tree =
                        toggle_expanded(@, nodes[app.selected_tree_index + 1][1])]
                ELSE app
      [] action = "CollapseAll" ->
            IF app.active_panel = "TestTree"
            THEN [app EXCEPT !.tree = collapse_all(@),
                             !.selected_tree_index = 0,
                             !.tree_scroll_offset = 0]
            ELSE app
      [] action \in DOMAIN FilterChar ->
            [app EXCEPT !.filter_query = Append(@, FilterChar[action]),
                        !.selected_tree_index = 0,
                        !.tree_scroll_offset = 0]
      [] action = "RunAll" ->
            [app EXCEPT !.tree = reset(@),
                        !.progress_done = 0,
                        !.running = TRUE,
                        !.full_run = TRUE]
      [] action = "RerunFailed" ->
            LET failed_ids == failed_nodes(app.tree)
            IN  IF failed_ids = <<>>
                THEN app
                ELSE [app EXCEPT
                        !.pending_runs = @ \o rerun_requests(app.tree, failed_ids, {}),
                        !.tree = set_running_status_all(@, failed_ids),
                        !.running = TRUE]
      [] action = "ToggleWatch" ->
            [app EXCEPT !.watch_mode = ~@]

(***************************************************************************)
(* main.rs: the driving loop.  State of the whole program.                 *)
(***************************************************************************)
VARIABLES
    app,          \* the App struct
    test_runner,  \* main.rs test_runner: TRUE once the runner has been received
    tasks,        \* the run tasks spawned by the loop, with their child processes
    chan,         \* the event channel (event_tx / event_rx), oldest first
    watch_stdin,  \* VitestRunner::watch_stdin: Option of the watch task owning the sender
    handled,      \* history: the events and keys the loop has handled, in order
    steps         \* history: number of inputs taken from the environment

vars == <<app, test_runner, tasks, chan, watch_stdin, handled, steps>>

\* tokio::spawn of a task that calls the runner (main.rs 78, 140, 154, 181, 190).
\* pc: "start" before try_run_via_watch, "spawn" before Command::spawn,
\*     "reading" in the stdout loop, "after_loop" between the loop and the return,
\*     "discovering" for the discovery task once it has sent the runner,
\*     "done" once the task has returned, "aborted" once it has been dropped.
\* child: "none" | "alive" | "exited"; exit: Option of the exit code;
\* kill_sent: ChildGuard::drop has run; lines: history of the stdout lines read;
\* writer: state of the stdin writer task of a watch session, with its queue.
\* via, watch_alive, cmd: history of how the run request was routed.
\* reporter_file, workspace_config: "none" | "exists" | "deleted", the
\*     NamedTempFile values of the invocation, where the task keeps track of them.
new_task(kind, file, name) ==
    [kind           |-> kind,
     file           |-> file,
     name           |-> name,
     pc             |-> IF kind = "run_all_watch" THEN "spawn" ELSE "start",
     child          |-> "none",
     exit           |-> None,
     kill_sent      |-> FALSE,
     lines          |-> <<>>,
     writer         |-> "none",
     stdin_queue    |-> <<>>,
     stdin_received |-> <<>>,
     via            |-> "none",
     watch_alive    |-> FALSE,
     cmd            |-> "none",
     reporter_file    |-> "none",
     workspace_config |-> "none"]

\* NamedTempFile::drop for the temp files a task holds
drop_files(tk) ==
    [tk EXCEPT !.reporter_file    = IF @ = "exists" THEN "deleted" ELSE @,
               !.workspace_config = IF @ = "exists" THEN "deleted" ELSE @]

\* dropping the future of a task whose child is held without a ChildGuard
abort_task_without_guard(tk) ==
    IF tk.pc \in {"done", "aborted"} THEN tk ELSE drop_files([tk EXCEPT !.pc = "aborted"])
\* JoinHandle::abort (main.rs 166-168) and the runtime shutdown at exit: the
\* task's future is dropped, and with it the ChildGuard if the child was spawned
abort_task(tk) ==
    IF tk.pc \in {"done", "aborted"}
    THEN tk
    ELSE IF tk.child = "none"
         THEN drop_files([tk EXCEPT !.pc = "aborted"])
         ELSE drop_files([tk EXCEPT !.pc = "aborted",
                                    !.kill_sent = TRUE,
                                    !.child = "exited",
                                    !.exit = IF @ = None THEN Some(-1) ELSE @])

Init ==
    /\ app = App_new
    /\ test_runner = FALSE
    /\ tasks = <<new_task("discover", <<>>, <<>>)>>
    /\ chan = <<>>
    /\ watch_stdin = None
    /\ handled = <<>>
    /\ steps = 0

RECURSIVE spawn_pending(_)
spawn_pending(pending) ==
    IF pending = <<>>
    THEN <<>>
    ELSE <<IF Head(pending).kind = "File"
           THEN new_task("run_file", Head(pending).file, <<>>)
           ELSE new_task("run_test", Head(pending).file, Head(pending).name)>>
         \o spawn_pending(Tail(pending))

\* main.rs 111-113, 230-232: the loop takes the next event and reduces it
handle_received(tagged, elapsed) ==
    /\ app' = handle_test_event(app, tagged.ev, elapsed)
    /\ handled' = Append(handled,
            [src |-> tagged.src, line |-> tagged.line, ev |-> tagged.ev,
             applied |-> updates_result(app, tagged.ev)])

\* run_start.elapsed() in milliseconds, as read by RunFinished
ElapsedMs == {7}

\* main.rs 131-211 and 268-270: a key press that maps to an action
\* variant that hands every action to handle_action
runner_not_ready_handles_all(a, action) == handle_action(a, action)

\* main.rs 202-210: the runner has not arrived yet
runner_not_ready(a, action) ==
    IF action \in {"RunAll", "RerunFailed", "ToggleWatch", "Select"}
    THEN [a EXCEPT !.output_lines = Append(@, <<"[INFO] Runner is still loading...">>)]
    ELSE handle_action(a, action)

Key(action) ==
    /\ ~app.should_quit
    /\ steps' = steps + 1
    /\ IF test_runner
       THEN CASE action = "RunAll" ->
                    /\ app' = [handle_action(app, action) EXCEPT !.run_start = Some("now")]
                    /\ tasks' = Append(tasks, new_task("run_all", <<>>, <<>>))
              [] action = "ToggleWatch" ->
                    LET a == handle_action(app, action)
                    IN  IF a.watch_mode
                        THEN /\ tasks' = Append(tasks, new_task("run_all_watch", <<>>, <<>>))
                             /\ app' = [a EXCEPT !.watch_handle = Some(Len(tasks) + 1)]
                        ELSE /\ tasks' = IF a.watch_handle # None
                                         THEN [tasks EXCEPT ![a.watch_handle[1]] = abort_task(@)]
                                         ELSE tasks
                             /\ app' = [a EXCEPT !.watch_handle = None, !.running = FALSE]
              [] action = "Quit" ->
                    /\ app' = handle_action(app, action)
                    /\ tasks' = [t \in 1..Len(tasks) |-> abort_task(tasks[t])]
              [] OTHER ->
                    LET a == handle_action(app, action)
                    IN  /\ tasks' = tasks \o spawn_pending(a.pending_runs)
                        /\ app' = IF a.pending_runs = <<>>
                                  THEN a
                                  ELSE [a EXCEPT !.pending_runs = <<>>,
                                                 !.running = TRUE,
                                                 !.run_start = Some("now")]
       ELSE IF action = "Quit"
            THEN /\ app' = handle_action(app, action)
                 /\ tasks' = [t \in 1..Len(tasks) |-> abort_task(tasks[t])]
            ELSE /\ tasks' = tasks
                 /\ app' = runner_not_ready(app, action)
    /\ handled' = Append(handled,
            [src |-> 0, line |-> 0, ev |-> [type |-> "Key", action |-> action],
             applied |-> FALSE])
    /\ UNCHANGED <<test_runner, chan, watch_stdin>>

\* main.rs 92-93: the discovery task hands the runner to the loop
DiscoverySendRunner ==
    /\ tasks[1].pc = "start"
    /\ tasks' = [tasks EXCEPT ![1].pc = "discovering"]
    /\ UNCHANGED <<app, test_runner, chan, watch_stdin, handled, steps>>

\* main.rs 215-220: the runner arrives on the oneshot channel
RunnerReady ==
    /\ ~app.should_quit
    /\ tasks[1].pc # "start"
    /\ ~test_runner
    /\ test_runner' = TRUE
    /\ UNCHANGED <<app, tasks, chan, watch_stdin, handled, steps>>

(***************************************************************************)
(* The reducer under arbitrary inputs: every event of ReducerEvents may be *)
(* the next one the channel delivers, every action of ReducerActions may   *)
(* be the next key.                                                        *)
(***************************************************************************)
FA    == <<"/", "w", "/", "a">>
FArel == <<"a">>
FB    == <<"b">>
NT    == <<"t">>
NST   == <<"s", " ", ">", " ", "t">>

TestResultOf(status) ==
    [status      |-> status,
     duration_ms |-> Some(5),
     failure     |-> IF status = "Failed" THEN Some("boom") ELSE None]

ReducerEvents ==
    {[type |-> "RunStarted"], [type |-> "TestsCollected", count |-> 1]}
    \cup {[type |-> "RunFinished",
           summary |-> [total |-> 2, passed |-> 1, failed |-> 1, skipped |-> 0,
                        duration |-> 3]],
          [type |-> "RunFinished",
           summary |-> [total |-> 1, passed |-> 0, failed |-> 0, skipped |-> 1,
                        duration |-> 4]]}
    \cup {[type |-> "FileStarted", path |-> f] : f \in {FA, FArel, FB}}
    \cup {[type |-> "TestStarted", file |-> f, name |-> n] : f \in {FA, FB}, n \in {NT, NST}}
    \cup {[type |-> "TestFinished", file |-> f, name |-> n,
           result |-> TestResultOf(s), location |-> None] :
              f \in {FA, FB}, n \in {NT, NST}, s \in {"Passed", "Failed", "Skipped"}}

ReducerActions == {"RunAll", "RerunFailed", "Select", "NavigateDown", "ToggleWatch"}

\* main.rs 230-232 with the delivered event chosen by the environment
Deliver(e) ==
    /\ ~app.should_quit
    /\ steps < MaxSteps
    /\ steps' = steps + 1
    /\ \E elapsed \in ElapsedMs : handle_received([src |-> 0, line |-> 0, ev |-> e], elapsed)
    /\ UNCHANGED <<test_runner, tasks, chan, watch_stdin>>

Next ==
    \/ DiscoverySendRunner
    \/ RunnerReady
    \/ \E a \in ReducerActions : steps < MaxSteps /\ Key(a)
    \/ \E e \in ReducerEvents : Deliver(e)

Spec == Init /\ [][Next]_vars

(***************************************************************************)
(* runner/vitest.rs: the line protocol.  A line of the child's output is   *)
(*   [kind |-> "json", obj |-> r]   a JSON object with the fields of r,    *)
(*   [kind |-> "text", text |-> s]  any other text, or                     *)
(*   [kind |-> "bytes"]             bytes that are not valid UTF-8.        *)
(***************************************************************************)
is_whitespace(c) == c \in {" ", "\t"}

RECURSIVE trim_start(_)
trim_start(s) == IF Len(s) > 0 /\ is_whitespace(s[1]) THEN trim_start(Tail(s)) ELSE s

RECURSIVE trim_end(_)
trim_end(s) ==
    IF Len(s) > 0 /\ is_whitespace(s[Len(s)])
    THEN trim_end(SubSeq(s, 1, Len(s) - 1))
    ELSE s

trim(s) == trim_end(trim_start(s))

\* Lines::next_line: Ok(Some(line)) as Some(line); an Err as None
next_line(l) == IF l.kind = "bytes" THEN None ELSE Some(l)

\* the fields #[derive(Deserialize)] requires for each tag of VitestEvent
required_fields(tag) ==
    CASE tag = "run-started"     -> {"total"}
      [] tag = "tests-collected" -> {"file", "count"}
      [] tag = "file-started"    -> {"file"}
      [] tag = "test-started"    -> {"file", "name"}
      [] tag = "test-finished"   -> {"file", "name", "state"}
      [] tag = "suite-location"  -> {"file", "name", "location"}
      [] tag = "console-log"     -> {"file", "content"}
      [] tag = "file-finished"   -> {"file"}
      [] tag = "run-finished"    -> {"total", "passed", "failed", "skipped", "duration"}

VitestTags ==
    {"run-started", "tests-collected", "file-started", "test-started", "test-finished",
     "suite-location", "console-log", "file-finished", "run-finished"}

\* serde_json::from_str::<VitestEvent>: Ok(event) as Some(event), Err as None
from_str(obj) ==
    IF /\ "type" \in DOMAIN obj
       /\ obj.type \in VitestTags
       /\ required_fields(obj.type) \subseteq DOMAIN obj
    THEN Some(obj)
    ELSE None

is_ascii_alphabetic(c) == c \in {"a", "b", "m", "t", "w", "x", "A", "B"}

RECURSIVE strip_ansi(_, _)
\* in_escape: an ESC has been seen and the letter that ends the sequence has not
strip_ansi(s, in_escape) ==
    IF s = <<>>
    THEN <<>>
    ELSE IF in_escape
         THEN strip_ansi(Tail(s), ~is_ascii_alphabetic(Head(s)))
         ELSE IF Head(s) = "ESC"
              THEN strip_ansi(Tail(s), TRUE)
              ELSE <<Head(s)>> \o strip_ansi(Tail(s), FALSE)

field(obj, f) == IF f \in DOMAIN obj THEN Some(obj[f]) ELSE None

strip_opt(o) == IF o = None THEN None ELSE Some(strip_ansi(o[1], FALSE))

into_test_event(v) ==
    CASE v.type = "run-started"     -> Some([type |-> "RunStarted"])
      [] v.type = "tests-collected" -> Some([type |-> "TestsCollected", count |-> v.count])
      [] v.type = "file-started"    -> Some([type |-> "FileStarted", path |-> v.file])
      [] v.type = "test-started"    ->
            Some([type |-> "TestStarted", file |-> v.file, name |-> v.name])
      [] v.type = "test-finished"   ->
            LET status == CASE v.state = "passed"  -> "Passed"
                            [] v.state = "failed"  -> "Failed"
                            [] v.state = "skipped" -> "Skipped"
                            [] OTHER               -> "Pending"
                error  == field(v, "error")
                failure == IF status = "Failed" /\ error # None
                           THEN Some([message        |-> strip_ansi(
                                          unwrap_or(field(error[1], "message"), <<>>), FALSE),
                                      expected       |-> strip_opt(field(error[1], "expected")),
                                      actual         |-> strip_opt(field(error[1], "actual")),
                                      diff           |-> strip_opt(field(error[1], "diff")),
                                      source_snippet |-> None,
                                      stack_trace    |-> strip_opt(field(error[1], "stack"))])
                           ELSE None
            IN  Some([type     |-> "TestFinished",
                      file     |-> v.file,
                      name     |-> v.name,
                      result   |-> [status      |-> status,
                                    duration_ms |-> field(v, "duration"),
                                    failure     |-> failure],
                      location |-> field(v, "location")])
      [] v.type = "suite-location"  ->
            Some([type |-> "SuiteLocation", file |-> v.file, name |-> v.name,
                  location |-> v.location])
      [] v.type = "console-log"     ->
            Some([type |-> "ConsoleLog", file |-> v.file, content |-> v.content])
      [] v.type = "file-finished"   -> Some([type |-> "FileFinished", path |-> v.file])
      [] v.type = "run-finished"    ->
            Some([type |-> "RunFinished",
                  summary |-> [total |-> v.total, passed |-> v.passed, failed |-> v.failed,
                               skipped |-> v.skipped, duration |-> v.duration]])

\* vitest.rs 320-339: the events one pass of the stdout loop sends for a line
stdout_events(l) ==
    IF l.kind = "text"
    THEN LET line == trim(l.text)
         IN  IF line = <<>> THEN <<>> ELSE <<[type |-> "Output", line |-> line]>>
    ELSE LET parsed == from_str(l.obj)
         IN  IF parsed = None
             THEN <<[type |-> "Output", line |-> l.obj]>>
             ELSE into_test_event(parsed[1])

(***************************************************************************)
(* runner/vitest.rs and main.rs: the run tasks and their child processes.  *)
(***************************************************************************)
OneShotKinds == {"run_all", "run_file", "run_test"}

watch_process_alive ==
    \E w \in 1..Len(tasks) : tasks[w].kind = "run_all_watch" /\ tasks[w].child = "alive"

\* WatchRunCommand of a run request (vitest.rs 421, 447, 475)
run_command(tk) ==
    CASE tk.kind = "run_all"  -> [type |-> "run-all"]
      [] tk.kind = "run_file" -> [type |-> "run-file", file |-> tk.file]
      [] tk.kind = "run_test" -> [type |-> "run-test", file |-> tk.file, name |-> tk.name]

\* mpsc::UnboundedSender::send succeeds while the receiver has not been dropped
send_is_ok(w) == tasks[w].writer = "open"

\* vitest.rs 364-374, called first by run_all / run_file / run_test
TryRunViaWatch(t) ==
    /\ tasks[t].kind \in OneShotKinds
    /\ tasks[t].pc = "start"
    /\ IF watch_stdin # None /\ send_is_ok(watch_stdin[1])
       THEN /\ tasks' = [tasks EXCEPT
                    ![t].pc = "done",
                    ![t].via = "watch",
                    ![t].watch_alive = watch_process_alive,
                    ![t].cmd = "queued",
                    ![watch_stdin[1]].stdin_queue =
                        Append(@, [req |-> t, line |-> run_command(tasks[t])])]
            /\ UNCHANGED watch_stdin
       ELSE /\ tasks' = [tasks EXCEPT
                    ![t].pc = "spawn",
                    ![t].via = "spawn",
                    ![t].watch_alive = watch_process_alive]
            /\ watch_stdin' = None
    /\ UNCHANGED <<app, test_runner, chan, handled, steps>>

\* the message of the Error event a task wrapper sends for an Err (main.rs 141-145, 155-159)
wrapper_error(tk) ==
    IF tk.kind = "run_all_watch" THEN <<"Watch error", "failed to spawn vitest">>
                                 ELSE <<"Runner error", "failed to spawn vitest">>

\* mpsc::UnboundedSender::send on the event channel: the newest message is the last
\* one the receiver gets
send_newest_first(c, events) == events \o c
send(c, events) == c \o events

\* vitest.rs 345-356 and main.rs 161: what a task that reached the end of the output
\* sends; only a one-shot run waits for the exit status
exit_events_any_mode(tk) ==
    (IF tk.exit[1] # 0
     THEN <<[type |-> "Error", message |-> <<"vitest exited with code", tk.exit[1]>>]>>
     ELSE <<>>) \o
    (IF tk.kind = "run_all_watch" THEN <<[type |-> "WatchStopped"]>> ELSE <<>>)
exit_events(tk) ==
    IF tk.kind = "run_all_watch"
    THEN <<[type |-> "WatchStopped"]>>
    ELSE IF tk.exit[1] # 0
         THEN <<[type |-> "Error", message |-> <<"vitest exited with code", tk.exit[1]>>]>>
         ELSE <<>>

tag(t, i, events) == [k \in 1..Len(events) |-> [src |-> t, line |-> i, ev |-> events[k]]]

\* vitest.rs 231-300: temp files, Command::spawn, the stdin writer, the ChildGuard.
\* ok = FALSE is a failure to write the temp file or to spawn.
Spawn(t, ok) ==
    /\ tasks[t].kind \in OneShotKinds \cup {"run_all_watch"}
    /\ tasks[t].pc = "spawn"
    /\ IF ok
       THEN /\ tasks' = [tasks EXCEPT
                    ![t].pc = "reading",
                    ![t].child = "alive",
                    ![t].writer = IF tasks[t].kind = "run_all_watch" THEN "open" ELSE @]
            /\ watch_stdin' = IF tasks[t].kind = "run_all_watch" THEN Some(t) ELSE watch_stdin
            /\ UNCHANGED chan
       ELSE /\ tasks' = [tasks EXCEPT ![t].pc = "done"]
            /\ chan' = send(chan, tag(t, 0,
                    <<[type |-> "Error", message |-> wrapper_error(tasks[t])]>> \o
                    (IF tasks[t].kind = "run_all_watch"
                     THEN <<[type |-> "WatchStopped"]>>
                     ELSE <<>>)))
            /\ UNCHANGED watch_stdin
    /\ UNCHANGED <<app, test_runner, handled, steps>>

\* vitest.rs 320-339: the child writes line l and the stdout loop reads it
ReadLine(t, l) ==
    /\ tasks[t].pc = "reading"
    /\ tasks[t].child = "alive"
    /\ tasks' = [tasks EXCEPT
            ![t].lines = Append(@, l),
            ![t].pc = IF next_line(l) = None THEN "after_loop" ELSE @]
    /\ chan' = IF next_line(l) = None
               THEN chan
               ELSE send(chan, tag(t, Len(tasks[t].lines) + 1, stdout_events(l)))
    /\ UNCHANGED <<app, test_runner, watch_stdin, handled, steps>>

\* the child process exits by itself
ChildExit(t, code) ==
    /\ tasks[t].child = "alive"
    /\ tasks' = [tasks EXCEPT ![t].child = "exited", ![t].exit = Some(code)]
    /\ UNCHANGED <<app, test_runner, chan, watch_stdin, handled, steps>>

\* vitest.rs 320: next_line returns Ok(None) once the child has closed its output
ReadEof(t) ==
    /\ tasks[t].pc = "reading"
    /\ tasks[t].child = "exited"
    /\ tasks' = [tasks EXCEPT ![t].pc = "after_loop"]
    /\ UNCHANGED <<app, test_runner, chan, watch_stdin, handled, steps>>

\* vitest.rs 341-359 and main.rs 141-146, 155-162: the stderr reader has ended,
\* stop_watch or child.wait, the return (which drops the ChildGuard), the wrapper
Finish(t) ==
    /\ tasks[t].pc = "after_loop"
    /\ tasks[t].child = "exited"
    /\ tasks' = [tasks EXCEPT ![t].pc = "done", ![t].kill_sent = TRUE]
    /\ watch_stdin' = IF tasks[t].kind = "run_all_watch" THEN None ELSE watch_stdin
    /\ chan' = send(chan, tag(t, 0, exit_events(tasks[t])))
    /\ UNCHANGED <<app, test_runner, handled, steps>>

\* vitest.rs 282-294: one pass of the stdin writer task of watch session w
StdinWriter(w) ==
    /\ ~app.should_quit
    /\ tasks[w].writer = "open"
    /\ IF tasks[w].stdin_queue # <<>>
       THEN LET c == Head(tasks[w].stdin_queue)
            IN  IF tasks[w].child = "alive"
                THEN /\ tasks' = [tasks EXCEPT
                            ![w].stdin_queue = Tail(@),
                            ![w].stdin_received = Append(@, c.line),
                            ![c.req].cmd = "written"]
                     /\ UNCHANGED watch_stdin
                ELSE \* write_all fails: break, clear the slot, drop the receiver
                     /\ tasks' = [k \in 1..Len(tasks) |->
                            IF k = w
                            THEN [tasks[k] EXCEPT !.writer = "closed", !.stdin_queue = <<>>]
                            ELSE IF \E j \in 1..Len(tasks[w].stdin_queue) :
                                        tasks[w].stdin_queue[j].req = k
                                 THEN [tasks[k] EXCEPT !.cmd = "lost"]
                                 ELSE tasks[k]]
                     /\ watch_stdin' = None
       ELSE \* recv returns None once every sender has been dropped
            /\ watch_stdin # Some(w)
            /\ tasks' = [tasks EXCEPT ![w].writer = "closed"]
            /\ watch_stdin' = None
    /\ UNCHANGED <<app, test_runner, chan, handled, steps>>

\* main.rs 95-107: discovery ends; DiscoveryComplete is sent only on success
DiscoveryFinish(ok, files) ==
    /\ tasks[1].pc = "discovering"
    /\ tasks' = [tasks EXCEPT ![1].pc = "done"]
    /\ chan' = IF ok
               THEN send(chan, tag(1, 0, <<[type |-> "DiscoveryComplete", files |-> files]>>))
               ELSE chan
    /\ UNCHANGED <<app, test_runner, watch_stdin, handled, steps>>

\* main.rs 230-232: the loop receives the oldest event of the channel
Recv ==
    /\ ~app.should_quit
    /\ chan # <<>>
    /\ \E elapsed \in ElapsedMs : handle_received(Head(chan), elapsed)
    /\ chan' = Tail(chan)
    /\ UNCHANGED <<test_runner, tasks, watch_stdin, steps>>

(***************************************************************************)
(* The runner adapter with the driving loop.  Keys, processes and lines    *)
(* are bounded per specification: SpecRunner has watch sessions and run    *)
(* requests over a one-line alphabet, SpecStream has a process writing any *)
(* line of StreamLines.                                                    *)
(***************************************************************************)
ExitCodes == {0, 1}

LinePassed ==
    [kind |-> "json", obj |-> [type |-> "test-finished", file |-> FA, name |-> NT,
                               state |-> "passed"]]

NextSystem(keys, max_keys, max_tasks, lines, max_lines, discovered) ==
    \/ DiscoverySendRunner
    \/ RunnerReady
    \/ \E a \in keys : steps < max_keys /\ Key(a) /\ Len(tasks') <= max_tasks
    \/ \E t \in 1..Len(tasks) : TryRunViaWatch(t)
    \/ \E t \in 1..Len(tasks) : \E ok \in BOOLEAN : Spawn(t, ok)
    \/ \E t \in 1..Len(tasks) : \E l \in lines :
            Len(tasks[t].lines) < max_lines /\ ReadLine(t, l)
    \/ \E t \in 1..Len(tasks) : \E code \in ExitCodes : ChildExit(t, code)
    \/ \E t \in 1..Len(tasks) : ReadEof(t)
    \/ \E t \in 1..Len(tasks) : Finish(t)
    \/ \E ok \in discovered : DiscoveryFinish(ok, <<FArel>>)
    \/ Recv

RunnerKeys == {"RunAll", "ToggleWatch", "Quit"}

NextRunner ==
    \/ NextSystem(RunnerKeys, MaxRunnerKeys, MaxRunnerTasks, {LinePassed}, MaxRunnerLines,
                  {FALSE})
    \/ \E w \in 1..Len(tasks) : StdinWriter(w)

SpecRunner == Init /\ [][NextRunner]_vars

StreamLines ==
    { LinePassed,
      [kind |-> "json", obj |-> [type |-> "bogus"]],
      [kind |-> "json", obj |-> [type |-> "test-started", file |-> FA]],
      [kind |-> "text", text |-> <<" ", "h", "i">>],
      [kind |-> "text", text |-> <<" ">>],
      [kind |-> "bytes"] }

NextStream ==
    NextSystem({"RunAll"}, MaxStreamTasks, MaxStreamTasks, StreamLines, MaxStreamLines,
               BOOLEAN)

SpecStream == Init /\ [][NextStream]_vars

(***************************************************************************)
(* Concurrent one-shot runs: the files are discovered, the keys start a    *)
(* full run and runs of single files, and each child writes the report of  *)
(* its run line by line.  The behaviours end before a child exits.         *)
(***************************************************************************)
\* the lines a child writes for a run in which one test of the file passes; a full
\* run is given the first file
report(tk) ==
    LET obj(o) == [kind |-> "json", obj |-> o]
    IN  << obj([type |-> "run-started", total |-> 1]),
           obj([type |-> "test-finished", file |-> IF tk.file = <<>> THEN FA ELSE tk.file,
                name |-> NT, state |-> "passed"]),
           obj([type |-> "run-finished", total |-> 1, passed |-> 1, failed |-> 0,
                skipped |-> 0, duration |-> 5]) >>

ConcurrentKeys == {"RunAll", "Select", "NavigateDown"}

NextConcurrent ==
    \/ DiscoverySendRunner
    \/ RunnerReady
    \/ DiscoveryFinish(TRUE, <<FArel, FB>>)
    \/ \E a \in ConcurrentKeys :
            steps < MaxConcurrentKeys /\ Key(a) /\ Len(tasks') <= MaxConcurrentTasks
    \/ \E t \in 1..Len(tasks) : TryRunViaWatch(t)
    \/ \E t \in 1..Len(tasks) : \E ok \in BOOLEAN : Spawn(t, ok)
    \/ \E t \in 1..Len(tasks) :
            /\ Len(tasks[t].lines) < MaxConcurrentLines
            /\ Len(tasks[t].lines) < Len(report(tasks[t]))
            /\ ReadLine(t, report(tasks[t])[Len(tasks[t].lines) + 1])
    \/ Recv

SpecConcurrent == Init /\ [][NextConcurrent]_vars

(***************************************************************************)
(* The tree under events with nested names and under the keys that change  *)
(* what the tree panel shows, from the state in which the runner has been  *)
(* delivered.  The watch scope is set by code outside src/: here the       *)
(* environment chooses it and refresh_watched_ids recomputes the set.      *)
(***************************************************************************)
FU == <<"A", "b">>
NS == <<"s">>

InitReady ==
    /\ app = App_new
    /\ test_runner = TRUE
    /\ tasks = <<[new_task("discover", <<>>, <<>>) EXCEPT !.pc = "discovering"]>>
    /\ chan = <<>>
    /\ watch_stdin = None
    /\ handled = <<>>
    /\ steps = 0

TreeEvents ==
    {[type |-> "RunStarted"],
     [type |-> "FileStarted", path |-> FB],
     [type |-> "TestStarted", file |-> FA, name |-> NST],
     [type |-> "TestFinished", file |-> FA, name |-> NS,
      result |-> TestResultOf("Failed"), location |-> None],
     [type |-> "TestFinished", file |-> FA, name |-> NST,
      result |-> TestResultOf("Passed"), location |-> None],
     [type |-> "TestFinished", file |-> FU, name |-> NT,
      result |-> TestResultOf("Failed"), location |-> None],
     [type |-> "SuiteLocation", file |-> FA, name |-> NS, location |-> "loc"],
     [type |-> "SuiteLocation", file |-> FA, name |-> NST, location |-> "loc"],
     [type |-> "ConsoleLog", file |-> FA, content |-> "log"]}

TreeKeys == {"RunAll", "Select", "NavigateDown", "Expand", "CollapseAll", "FilterInput(A)"}

WatchScopes ==
    {[kind |-> "None"], [kind |-> "All"]}
    \cup {[kind |-> "File", path |-> f] : f \in {FA, WORKSPACE \o <<"/">> \o FU, <<"/", "x">>}}
    \cup {[kind |-> "Test", file |-> FA, name |-> n] : n \in {NS, NT, <<"z">>}}

\* the scope is replaced and App::refresh_watched_ids is called
RefreshWatchedIds(scope) ==
    /\ ~app.should_quit
    /\ steps' = steps + 1
    /\ app' = refresh_watched_ids([app EXCEPT !.watch_scope = scope])
    /\ handled' = Append(handled,
            [src |-> 0, line |-> 0, ev |-> [type |-> "Refresh", scope |-> scope],
             applied |-> FALSE])
    /\ UNCHANGED <<test_runner, tasks, chan, watch_stdin>>

\* main.rs 230-232 with the delivered event chosen by the environment
DeliverTree(e) ==
    /\ ~app.should_quit
    /\ steps' = steps + 1
    /\ \E elapsed \in ElapsedMs : handle_received([src |-> 0, line |-> 0, ev |-> e], elapsed)
    /\ UNCHANGED <<test_runner, tasks, chan, watch_stdin>>

NextTree ==
    \/ \E e \in TreeEvents : steps < MaxTreeSteps /\ DeliverTree(e)
    \/ \E a \in TreeKeys : steps < MaxTreeSteps /\ Key(a)
    \/ \E scope \in WatchScopes : steps < MaxTreeSteps /\ RefreshWatchedIds(scope)

SpecTree == InitReady /\ [][NextTree]_vars

(***************************************************************************)
(* One full run from start to end: RunAll is pressed once, and the child   *)
(* writes the report of a run of one file, test by test.                   *)
(***************************************************************************)
RunTestNames == <<NT, NST, <<"u">>>>

ReportStates == {"passed", "failed", "skipped"}

CountState(ls, state) ==
    Cardinality({i \in 1..Len(ls) :
        ls[i].obj.type = "test-finished" /\ ls[i].obj.state = state})

\* the lines the child may write after the lines ls: run-started, tests-collected,
\* file-started, test-started and test-finished per test, run-finished
next_report_lines(ls) ==
    LET p      == Len(ls) + 1
        n      == IF Len(ls) >= 2 THEN ls[2].obj.count ELSE 0
        k      == (p - 2) \div 2
        obj(o) == [kind |-> "json", obj |-> o]
    IN  CASE p = 1 -> {obj([type |-> "run-started", total |-> 1])}
          [] p = 2 -> {obj([type |-> "tests-collected", file |-> FA, count |-> c]) :
                            c \in 1..MaxRunTests}
          [] p = 3 -> {obj([type |-> "file-started", file |-> FA])}
          [] p \in 4..(3 + 2 * n) /\ p % 2 = 0 ->
                {obj([type |-> "test-started", file |-> FA, name |-> RunTestNames[k]])}
          [] p \in 4..(3 + 2 * n) /\ p % 2 = 1 ->
                {obj([type |-> "test-finished", file |-> FA, name |-> RunTestNames[k],
                      state |-> st]) : st \in ReportStates}
          [] p = 4 + 2 * n /\ p > 4 ->
                {obj([type |-> "run-finished", total |-> n,
                      passed |-> CountState(ls, "passed"),
                      failed |-> CountState(ls, "failed"),
                      skipped |-> CountState(ls, "skipped"), duration |-> 5])}
          [] OTHER -> {}

NextRun ==
    \/ Len(tasks) = 1 /\ Key("RunAll")
    \/ \E t \in 1..Len(tasks) : TryRunViaWatch(t)
    \/ \E t \in 1..Len(tasks) : \E ok \in BOOLEAN : Spawn(t, ok)
    \/ \E t \in 1..Len(tasks) : \E l \in next_report_lines(tasks[t].lines) : ReadLine(t, l)
    \/ \E t \in 1..Len(tasks) : \E code \in ExitCodes : ChildExit(t, code)
    \/ \E t \in 1..Len(tasks) : ReadEof(t)
    \/ \E t \in 1..Len(tasks) : Finish(t)
    \/ Recv

SpecRun == InitReady /\ [][NextRun]_vars

(***************************************************************************)
(* Properties of the reducer.                                              *)
(***************************************************************************)
Last(seq) == seq[Len(seq)]

\* the step handles one more input, and that input is an event of these types
HandlesEvent(types) ==
    /\ Len(handled') = Len(handled) + 1
    /\ Last(handled').ev.type \in types

\* the names on the way from the root down to node i
RECURSIVE NamePath(_, _)
NamePath(tree, i) ==
    IF tree.nodes[i].parent = None
    THEN <<tree.nodes[i].name>>
    ELSE Append(NamePath(tree, tree.nodes[i].parent[1]), tree.nodes[i].name)

RECURSIVE Ancestors(_, _)
Ancestors(tree, i) ==
    IF tree.nodes[i].parent = None
    THEN {}
    ELSE {tree.nodes[i].parent[1]} \cup Ancestors(tree, tree.nodes[i].parent[1])

ChildStatuses(tree, i) ==
    {tree.nodes[tree.nodes[i].children[k]].status : k \in 1..Len(tree.nodes[i].children)}

IsAggregate(tree, i) ==
    /\ tree.nodes[i].status \in ChildStatuses(tree, i)
    /\ \A s \in ChildStatuses(tree, i) : priority(s) <= priority(tree.nodes[i].status)

\* C1: in the state that follows a TestFinished applied through update_result,
\* every node with at least one child carries the highest-priority status of
\* its direct children (Failed > Running > Pending > Passed > Skipped), for
\* every container of the tree.
C1_AggregateEverywhere ==
    (handled # <<>> /\ Last(handled).applied) =>
        \A i \in 1..Len(app.tree.nodes) :
            app.tree.nodes[i].children # <<>> => IsAggregate(app.tree, i)

\* C2: a TestFinished with a Skipped result for the (file, name) of a Test node
\* whose status is Passed or Failed leaves that node's status and result, and
\* the status of each of its ancestors, unchanged.
C2_StatusDomination ==
    [][HandlesEvent({"TestFinished"}) /\ Last(handled').ev.result.status = "Skipped" =>
        LET e == Last(handled').ev
        IN  \A i \in 1..Len(app.tree.nodes) :
                ( /\ app.tree.nodes[i].kind = "Test"
                  /\ app.tree.nodes[i].status \in {"Passed", "Failed"}
                  /\ NamePath(app.tree, i) =
                        <<file_display_name(e.file)>> \o split(e.name, SEPARATOR) )
                => /\ app'.tree.nodes[i].status = app.tree.nodes[i].status
                   /\ app'.tree.nodes[i].result = app.tree.nodes[i].result
                   /\ \A a \in Ancestors(app.tree, i) :
                        app'.tree.nodes[a].status = app.tree.nodes[a].status
      ]_vars

\* C2 witness: a Skipped TestFinished has just been handled for a node that
\* still holds the Passed or Failed result it had before.
C2_Witness ==
    /\ handled # <<>>
    /\ Last(handled).ev.type = "TestFinished"
    /\ Last(handled).ev.result.status = "Skipped"
    /\ ~Last(handled).applied
    /\ \E i \in 1..Len(app.tree.nodes) :
        /\ app.tree.nodes[i].kind = "Test"
        /\ app.tree.nodes[i].status \in {"Passed", "Failed"}
        /\ app.tree.nodes[i].result # None
        /\ NamePath(app.tree, i) =
              <<file_display_name(Last(handled).ev.file)>>
                  \o split(Last(handled).ev.name, SEPARATOR)

\* the shape of a tree: node count, root list, parent and child links
Shape(tree) ==
    [count    |-> Len(tree.nodes),
     root_ids |-> tree.root_ids,
     links    |-> [i \in 1..Len(tree.nodes) |->
                      <<tree.nodes[i].parent, tree.nodes[i].children>>]]

\* event e names a file, or a (file, name) pair, that entry h of the history named
SameTarget(h, e) ==
    /\ h.ev.type \in {"FileStarted", "TestStarted", "TestFinished"}
    /\ IF e.type = "FileStarted"
       THEN e.path = (IF h.ev.type = "FileStarted" THEN h.ev.path ELSE h.ev.file)
       ELSE /\ h.ev.type \in {"TestStarted", "TestFinished"}
            /\ h.ev.file = e.file
            /\ h.ev.name = e.name

UniqueNames(tree) ==
    /\ \A i, j \in 1..Len(tree.root_ids) :
        tree.nodes[tree.root_ids[i]].name = tree.nodes[tree.root_ids[j]].name => i = j
    /\ \A p \in 1..Len(tree.nodes) :
        \A i, j \in 1..Len(tree.nodes[p].children) :
            tree.nodes[tree.nodes[p].children[i]].name =
                tree.nodes[tree.nodes[p].children[j]].name => i = j

\* C3: handling FileStarted, TestStarted or TestFinished for a file or a
\* (file, name) pair that an earlier event already named creates no node: node
\* count, root list and every parent/child link stay as they were, and names
\* stay unique among the roots and among the children of each node.
C3_IdempotentConstruction ==
    [][ ( /\ HandlesEvent({"FileStarted", "TestStarted", "TestFinished"})
          /\ \E k \in 1..Len(handled) : SameTarget(handled[k], Last(handled').ev) )
        => /\ Shape(app'.tree) = Shape(app.tree)
           /\ UniqueNames(app'.tree)
      ]_vars

\* C3 witness: the event handled last repeats the (file, name) pair of an
\* earlier TestStarted or TestFinished, and the file has a node below it.
C3_Witness ==
    /\ Len(handled) >= 2
    /\ Last(handled).ev.type \in {"TestStarted", "TestFinished"}
    /\ \E k \in 1..(Len(handled) - 1) : SameTarget(handled[k], Last(handled).ev)
    /\ \E i \in 1..Len(app.tree.nodes) :
        /\ app.tree.nodes[i].kind = "File"
        /\ app.tree.nodes[i].children # <<>>

(***************************************************************************)
(* Properties of the runner adapter.                                       *)
(***************************************************************************)
\* every event sent by a task so far, oldest first: the handled ones, then the
\* ones still in the channel
Sent ==
    LET h == SelectSeq(handled, LAMBDA x : x.src > 0)
    IN  [i \in 1..Len(h) |-> [src |-> h[i].src, line |-> h[i].line, ev |-> h[i].ev]] \o chan

SentBy(t) == {i \in 1..Len(Sent) : Sent[i].src = t}

\* C4: a run request is written to the watch process's standard input, and spawns
\* nothing, if and only if a watch session's process is alive at the time of the
\* request; otherwise it spawns a one-shot process.
C4_RetargetIffWatchAlive ==
    \A t \in 1..Len(tasks) :
        (tasks[t].kind \in OneShotKinds /\ tasks[t].via # "none")
            => (tasks[t].via = "watch" <=> tasks[t].watch_alive)

\* C5: no ended or aborted run task has a spawned child that was left without a
\* kill delivered to it and to its process group.
C5_KillOnEveryEnd ==
    \A t \in 1..Len(tasks) :
        (tasks[t].pc \in {"done", "aborted"} /\ tasks[t].child # "none")
            => (tasks[t].kill_sent /\ tasks[t].child = "exited")

\* a run task was aborted while suspended reading the output of its live child
C5_Witness ==
    \E t \in 1..Len(tasks) :
        /\ tasks[t].pc = "aborted"
        /\ tasks[t].child = "exited"
        /\ tasks[t].exit = Some(-1)
        /\ tasks[t].kill_sent

\* C6: no run request is reported as sent while its command is delivered to a
\* dead process: the command of a request handed to a watch session is never
\* written to the standard input of a process that has exited.
C6_NoRequestLost == \A t \in 1..Len(tasks) : tasks[t].cmd # "lost"

IsExitError(m, code) ==
    m.ev.type = "Error" /\ m.ev.message = <<"vitest exited with code", code>>

\* C7: a one-shot run whose child exited with a non-zero status has sent exactly
\* one Error, which carries the exit code and follows every event of the child's
\* output; a watch session whose child exited has sent no Error and, once it has
\* ended, one WatchStopped.
C7_ExitErrorOnlyOneShot ==
    \A t \in 1..Len(tasks) :
        LET errors == {i \in SentBy(t) : Sent[i].ev.type = "Error"}
            stops  == {i \in SentBy(t) : Sent[i].ev.type = "WatchStopped"}
        IN  /\ ( /\ tasks[t].kind \in OneShotKinds
                 /\ tasks[t].pc = "done"
                 /\ tasks[t].child = "exited"
                 /\ tasks[t].exit # Some(0) )
                => /\ Cardinality(errors) = 1
                   /\ \A i \in errors :
                        /\ IsExitError(Sent[i], tasks[t].exit[1])
                        /\ \A j \in SentBy(t) : j # i => (j < i /\ Sent[j].line > 0)
            /\ (tasks[t].kind = "run_all_watch" /\ tasks[t].child # "none")
                => /\ errors = {}
                   /\ Cardinality(stops) = IF tasks[t].pc = "done" THEN 1 ELSE 0

\* a one-shot run sent an event of its child's output and then the Error of the
\* non-zero exit, and a watch session whose child exited non-zero has ended
C7_Witness ==
    /\ \E t \in 1..Len(tasks) :
        /\ tasks[t].kind \in OneShotKinds
        /\ tasks[t].pc = "done"
        /\ tasks[t].exit = Some(1)
        /\ \E i, j \in SentBy(t) : i < j /\ Sent[i].line > 0 /\ IsExitError(Sent[j], 1)
    /\ \E w \in 1..Len(tasks) :
        /\ tasks[w].kind = "run_all_watch"
        /\ tasks[w].pc = "done"
        /\ tasks[w].exit = Some(1)

\* serde_json::from_str::<VitestEvent> fails on the line
Unparsable(l) == l.kind = "text" \/ (l.kind = "json" /\ from_str(l.obj) = None)

Verbatim(l) == IF l.kind = "text" THEN l.text ELSE l.obj

\* C8: every line of the child's output that does not deserialize has yielded
\* exactly one event, an Output carrying the line, and the read loop has ended
\* only at the end of the stream.
C8_UnparsableLineForwarded ==
    \A t \in 1..Len(tasks) :
        /\ \A i \in 1..Len(tasks[t].lines) :
                (tasks[t].lines[i].kind = "bytes" \/ Unparsable(tasks[t].lines[i]))
                    => \E k \in SentBy(t) :
                        /\ Sent[k].line = i
                        /\ Sent[k].ev = [type |-> "Output", line |-> Verbatim(tasks[t].lines[i])]
                        /\ \A j \in SentBy(t) : Sent[j].line = i => j = k
        /\ tasks[t].pc = "after_loop" => tasks[t].child = "exited"

\* C9: the events of one process's output are handled in the order of its lines.
C9_LineOrderPreserved ==
    \A p, q \in 1..Len(handled) :
        ( /\ p < q
          /\ handled[p].src = handled[q].src
          /\ handled[p].line > 0
          /\ handled[q].line > 0 )
            => handled[p].line < handled[q].line

\* two lines of one process were handled with the event of another producer
\* handled between them
C9_Witness ==
    \E p, q, r \in 1..Len(handled) :
        /\ p < q /\ q < r
        /\ handled[p].src = handled[r].src
        /\ handled[p].line = 1
        /\ handled[r].line = 2
        /\ handled[q].src = 1

(***************************************************************************)
(* Properties of concurrent one-shot runs.                                 *)
(***************************************************************************)
\* the events the stdout loop sends for the whole report of a run
RECURSIVE events_of(_)
events_of(ls) == IF ls = <<>> THEN <<>> ELSE stdout_events(Head(ls)) \o events_of(Tail(ls))

\* every merge of two streams that keeps the order of each
RECURSIVE Interleavings(_, _)
Interleavings(s1, s2) ==
    IF s1 = <<>> THEN {s2}
    ELSE IF s2 = <<>> THEN {s1}
    ELSE {<<Head(s1)>> \o r : r \in Interleavings(Tail(s1), s2)} \cup
         {<<Head(s2)>> \o r : r \in Interleavings(s1, Tail(s2))}

\* the reducer applied to a stream of events, oldest first
RECURSIVE handle_all(_, _)
handle_all(a, events) ==
    IF events = <<>>
    THEN a
    ELSE handle_all(handle_test_event(a, Head(events), 7), Tail(events))

\* status and result of every node, identified by file and name path
NodeView(a) ==
    {<<NamePath(a.tree, i), a.tree.nodes[i].status, a.tree.nodes[i].result>> :
        i \in 1..Len(a.tree.nodes)}

\* two one-shot runs over distinct files, both started and neither has reported
ConcurrentFileRuns(t1, t2) ==
    /\ t1 < t2
    /\ tasks[t1].kind = "run_file" /\ tasks[t2].kind = "run_file"
    /\ tasks[t1].file # tasks[t2].file
    /\ tasks[t1].pc \in {"start", "spawn", "reading"} /\ tasks[t1].lines = <<>>
    /\ tasks[t2].pc \in {"start", "spawn", "reading"} /\ tasks[t2].lines = <<>>

\* C10: for two concurrent one-shot runs over distinct files, every interleaving
\* of their event streams leaves every node with the status and result that
\* handling the streams one after the other leaves.
C10_InterleavingsAgree ==
    \A t1, t2 \in 1..Len(tasks) :
        ConcurrentFileRuns(t1, t2) =>
            LET s1 == events_of(report(tasks[t1]))
                s2 == events_of(report(tasks[t2]))
            IN  \A s \in Interleavings(s1, s2) :
                    NodeView(handle_all(app, s)) = NodeView(handle_all(app, s1 \o s2))

(***************************************************************************)
(* Properties of the actions.                                              *)
(***************************************************************************)
\* the step handles one more input, and that input is the key of this action
HandlesKey(action) ==
    /\ Len(handled') = Len(handled) + 1
    /\ Last(handled').ev = [type |-> "Key", action |-> action]

FailedTests(tree) ==
    {i \in 1..Len(tree.nodes) : tree.nodes[i].kind = "Test" /\ tree.nodes[i].status = "Failed"}

\* the File nodes above the Failed Test nodes
FailedFiles(tree) ==
    {a \in 1..Len(tree.nodes) :
        /\ tree.nodes[a].kind = "File"
        /\ \E i \in FailedTests(tree) : a \in Ancestors(tree, i)}

\* C11: RerunFailed starts exactly one File run per distinct owning file of the
\* Failed Test nodes, sets every one of those nodes to Running and sets the
\* running flag; with no Failed Test node it starts nothing and changes nothing.
C11_RerunFailedPerFile ==
    [][ (HandlesKey("RerunFailed") /\ test_runner) =>
        LET new == SubSeq(tasks', Len(tasks) + 1, Len(tasks'))
        IN  IF FailedTests(app.tree) = {}
            THEN app' = app /\ tasks' = tasks
            ELSE /\ Len(new) = Cardinality(FailedFiles(app.tree))
                 /\ \A k \in 1..Len(new) : new[k].kind = "run_file"
                 /\ {new[k].file : k \in 1..Len(new)} =
                        {resolve_file_path(app.tree, a) : a \in FailedFiles(app.tree)}
                 /\ \A i \in FailedTests(app.tree) : app'.tree.nodes[i].status = "Running"
                 /\ app'.running
      ]_vars

\* RerunFailed was the last input, two tests that had failed are Running and
\* run_file tasks were started for their files
C11_Witness ==
    /\ handled # <<>>
    /\ Last(handled).ev = [type |-> "Key", action |-> "RerunFailed"]
    /\ \E i, j \in 1..Len(app.tree.nodes) :
        /\ i # j
        /\ app.tree.nodes[i].kind = "Test" /\ app.tree.nodes[j].kind = "Test"
        /\ app.tree.nodes[i].status = "Running" /\ app.tree.nodes[j].status = "Running"
        /\ app.tree.nodes[i].result # None /\ app.tree.nodes[j].result # None
    /\ \E t \in 1..Len(tasks) : tasks[t].kind = "run_file"

(***************************************************************************)
(* Properties of the tree.                                                 *)
(***************************************************************************)
\* the step runs TestTree::reset: the RunAll key, or RunStarted in a full run
ResetStep ==
    \/ HandlesKey("RunAll") /\ test_runner
    \/ HandlesEvent({"RunStarted"}) /\ app.full_run

\* C12: after reset every node is Pending with no result and no console output;
\* ids, kinds, names, the root list, parent and child links and expanded flags
\* are as before; a second reset changes nothing.
C12_ResetIdempotent ==
    [][ ResetStep =>
        /\ Len(app'.tree.nodes) = Len(app.tree.nodes)
        /\ app'.tree.root_ids = app.tree.root_ids
        /\ \A i \in 1..Len(app.tree.nodes) :
            /\ app'.tree.nodes[i].status = "Pending"
            /\ app'.tree.nodes[i].result = None
            /\ app'.tree.nodes[i].console_output = <<>>
            /\ app'.tree.nodes[i].id = app.tree.nodes[i].id
            /\ app'.tree.nodes[i].kind = app.tree.nodes[i].kind
            /\ app'.tree.nodes[i].name = app.tree.nodes[i].name
            /\ app'.tree.nodes[i].parent = app.tree.nodes[i].parent
            /\ app'.tree.nodes[i].children = app.tree.nodes[i].children
            /\ app'.tree.nodes[i].expanded = app.tree.nodes[i].expanded
        /\ reset(app'.tree) = app'.tree
      ]_vars

\* RunAll was the last input, after a test result and a console line were stored
C12_Witness ==
    /\ Len(handled) >= 3
    /\ Last(handled).ev = [type |-> "Key", action |-> "RunAll"]
    /\ \E k \in 1..Len(handled) : handled[k].applied
    /\ \E k \in 1..Len(handled) : handled[k].ev.type = "ConsoleLog"
    /\ Len(app.tree.nodes) >= 2

FilterQueries == {<<>>, <<"a">>, <<"A">>, <<"b">>, <<"A", "B">>, <<"s">>}

SameLetter(c, d) ==
    \/ c = d
    \/ {c, d} = {"a", "A"}
    \/ {c, d} = {"b", "B"}

\* name contains q, letters compared without regard to case
ContainsIgnoringCase(name, q) ==
    \E i \in 0..(Len(name) - Len(q)) : \A k \in 1..Len(q) : SameLetter(name[i + k], q[k])

RECURSIVE RootOf(_, _)
RootOf(tree, i) ==
    IF tree.nodes[i].parent = None THEN i ELSE RootOf(tree, tree.nodes[i].parent[1])

\* C13: the filtered list for the empty query is the unfiltered list; for any
\* query it is the unfiltered list restricted to the rows below the roots whose
\* name contains the query case-insensitively, in the same order.
C13_FilterCorrect ==
    /\ visible_nodes_filtered(app.tree, <<>>) = visible_nodes(app.tree)
    /\ \A q \in FilterQueries :
        visible_nodes_filtered(app.tree, q) =
            SelectSeq(visible_nodes(app.tree),
                      LAMBDA row : ContainsIgnoringCase(
                                        app.tree.nodes[RootOf(app.tree, row[1])].name, q))
    /\ visible_tree_nodes(app) =
            SelectSeq(visible_nodes(app.tree),
                      LAMBDA row : ContainsIgnoringCase(
                                        app.tree.nodes[RootOf(app.tree, row[1])].name,
                                        app.filter_query))

\* a filter is set; it keeps a root with rows below it and drops another root
C13_Witness ==
    /\ app.filter_query # <<>>
    /\ Len(visible_tree_nodes(app)) >= 2
    /\ Len(visible_tree_nodes(app)) < Len(visible_nodes(app.tree))

(***************************************************************************)
(* Properties of one full run.                                             *)
(***************************************************************************)
StatusOfState(state) ==
    CASE state = "passed"  -> "Passed"
      [] state = "failed"  -> "Failed"
      [] state = "skipped" -> "Skipped"

\* the Test nodes found under file a by the names of a ' > '-separated full name
TestNodesOf(tree, full_name) ==
    {i \in 1..Len(tree.nodes) :
        /\ tree.nodes[i].kind = "Test"
        /\ NamePath(tree, i) = <<FArel>> \o split(full_name, SEPARATOR)}

SegmentNodes(tree, file, parts, k) ==
    {i \in 1..Len(tree.nodes) :
        NamePath(tree, i) = <<file_display_name(file)>> \o SubSeq(parts, 1, k)}

\* C15: a Test node has no children, and of every full name delivered by
\* TestStarted or TestFinished the node of the final segment has kind Test and
\* the nodes of the earlier segments have kind Suite.
C15_TestIsLeaf ==
    /\ \A i \in 1..Len(app.tree.nodes) :
        app.tree.nodes[i].kind = "Test" => app.tree.nodes[i].children = <<>>
    /\ \A h \in 1..Len(handled) :
        handled[h].ev.type \in {"TestStarted", "TestFinished"} =>
            LET parts == split(handled[h].ev.name, SEPARATOR)
            IN  \A k \in 1..Len(parts) :
                    \A i \in SegmentNodes(app.tree, handled[h].ev.file, parts, k) :
                        app.tree.nodes[i].kind = IF k = Len(parts) THEN "Test" ELSE "Suite"

(***************************************************************************)
(* Structure of the tree.                                                  *)
(***************************************************************************)
Occurrences(seq, x) == Cardinality({j \in 1..Len(seq) : seq[j] = x})

\* ids follow positions, a parent precedes its child (so no chain of parents
\* returns to its start), and every node is listed once, by its parent or by
\* the root list
WellFormed(tree) ==
    \A i \in 1..Len(tree.nodes) :
        LET n == tree.nodes[i]
        IN  /\ n.id = i
            /\ Len(n.parent) <= 1
            /\ \A c \in 1..Len(n.children) : n.children[c] \in 1..Len(tree.nodes)
            /\ IF n.parent = None
               THEN /\ Occurrences(tree.root_ids, i) = 1
                    /\ \A p \in 1..Len(tree.nodes) :
                        Occurrences(tree.nodes[p].children, i) = 0
               ELSE /\ n.parent[1] \in 1..(i - 1)
                    /\ Occurrences(tree.root_ids, i) = 0
                    /\ \A p \in 1..Len(tree.nodes) :
                        Occurrences(tree.nodes[p].children, i) =
                            IF p = n.parent[1] THEN 1 ELSE 0

\* a step removes no node and leaves the id and the parent of every node alone
NodesKept ==
    /\ Len(app'.tree.nodes) >= Len(app.tree.nodes)
    /\ \A i \in 1..Len(app.tree.nodes) :
        /\ app'.tree.nodes[i].id = app.tree.nodes[i].id
        /\ app'.tree.nodes[i].parent = app.tree.nodes[i].parent
        /\ app'.tree.nodes[i].kind = app.tree.nodes[i].kind
        /\ app'.tree.nodes[i].name = app.tree.nodes[i].name

\* C16: in every reachable state ids are positions of creation, every non-root
\* node has one parent and occurs once in that parent's children, every root
\* has no parent and occurs once in the root list, the parent relation has no
\* cycle, and no event or action removes a node or changes an id.
C16_TreeStructure == [](WellFormed(app.tree)) /\ [][NodesKept]_vars

\* a root with a suite and a test below it, after a reset by RunAll
C16_Witness ==
    /\ \E i \in 1..Len(app.tree.nodes) :
        /\ app.tree.nodes[i].parent # None
        /\ app.tree.nodes[app.tree.nodes[i].parent[1]].parent # None
    /\ Len(app.tree.root_ids) >= 1
    /\ \E h \in 1..Len(handled) : handled[h].ev = [type |-> "Key", action |-> "RunAll"]

(***************************************************************************)
(* The highlighted set of a watch scope.                                   *)
(***************************************************************************)
\* the step is a refresh of the highlighted set for a scope of this kind
Refreshes(kinds) ==
    /\ HandlesEvent({"Refresh"})
    /\ Last(handled').ev.scope.kind \in kinds

\* node i and everything below it
Subtree(tree, i) == {i} \cup {j \in 1..Len(tree.nodes) : i \in Ancestors(tree, j)}

\* the roots a scope path resolves to: by workspace-relative name or by stored path
MatchingRoots(tree, scope_path) ==
    {r \in 1..Len(tree.nodes) :
        /\ tree.nodes[r].parent = None
        /\ \/ tree.nodes[r].name = unwrap_or(path_strip_prefix(scope_path, WORKSPACE), scope_path)
           \/ tree.nodes[r].path = Some(scope_path)}

\* the Suite and Test nodes below file f that carry the name
Matched(tree, f, name) ==
    {m \in Subtree(tree, f) \ {f} :
        tree.nodes[m].kind \in {"Suite", "Test"} /\ tree.nodes[m].name = name}

\* C17: for scope Test(file, name) the highlighted set is the union, over the
\* Suite and Test nodes of the file's subtree named name, of the node's subtree
\* and its strict ancestors below the File node; the File node is not in it
\* and it is empty when no node matches.
C17_TestScopeSet ==
    [][Refreshes({"Test"}) =>
        LET scope == Last(handled').ev.scope
            tree  == app'.tree
            files == MatchingRoots(tree, scope.file)
        IN  IF files = {}
            THEN app'.watched_ids = {}
            ELSE \E f \in files :
                    /\ app'.watched_ids =
                        UNION {Subtree(tree, m) \cup (Ancestors(tree, m) \ {f}) :
                               m \in Matched(tree, f, scope.name)}
                    /\ f \notin app'.watched_ids
                    /\ (Matched(tree, f, scope.name) = {} => app'.watched_ids = {})]_vars

\* C18: scopes None and All give the empty set; scope File(path) gives the
\* matching File root with all its descendants, or the empty set when no root
\* matches; computing the set leaves the tree as it was.
C18_FileScopeSet ==
    [][Refreshes({"None", "All", "File"}) =>
        LET scope == Last(handled').ev.scope
        IN  /\ app'.tree = app.tree
            /\ app'.watch_scope = scope
            /\ IF scope.kind \in {"None", "All"}
               THEN app'.watched_ids = {}
               ELSE IF MatchingRoots(app.tree, scope.path) = {}
                    THEN app'.watched_ids = {}
                    ELSE \E f \in MatchingRoots(app.tree, scope.path) :
                            /\ app.tree.nodes[f].kind = "File"
                            /\ app'.watched_ids = Subtree(app.tree, f)]_vars

\* a File scope was just resolved to a file with a suite and a test below it
C18_Witness ==
    /\ Len(handled) > 0
    /\ Last(handled).ev.type = "Refresh"
    /\ Last(handled).ev.scope.kind = "File"
    /\ Cardinality(app.watched_ids) >= 3
    /\ Len(app.tree.nodes) > Cardinality(app.watched_ids)

(***************************************************************************)
(* Keys before the runner has arrived.                                     *)
(***************************************************************************)
RunTriggering == {"RunAll", "RerunFailed", "ToggleWatch", "Select"}

LoadingNotice == <<"[INFO] Runner is still loading...">>

\* C19: while the runner has not arrived, a key of RunAll, RerunFailed,
\* ToggleWatch or Select adds the notice to the output, starts no task, leaves
\* the tree, the running, full_run and watch_mode flags and the pending runs
\* as they were and queues nothing; any other action is handled by
\* handle_action as usual.
C19_NotReadyDefers ==
    [][(~test_runner /\ HandlesEvent({"Key"})) =>
        LET action == Last(handled').ev.action
        IN  IF action \in RunTriggering
            THEN /\ app'.output_lines = Append(app.output_lines, LoadingNotice)
                 /\ tasks' = tasks
                 /\ chan' = chan
                 /\ app'.tree = app.tree
                 /\ app'.running = app.running
                 /\ app'.full_run = app.full_run
                 /\ app'.watch_mode = app.watch_mode
                 /\ app'.watch_handle = app.watch_handle
                 /\ app'.pending_runs = app.pending_runs
                 /\ app'.pending_runs = <<>>
            ELSE /\ app' = handle_action(app, action)
                 /\ chan' = chan
                 /\ Len(tasks') = Len(tasks)]_vars

\* RunAll was pressed before the runner arrived, with tests already in the tree
C19_Witness ==
    /\ ~test_runner
    /\ Len(handled) > 0
    /\ Last(handled).ev = [type |-> "Key", action |-> "RunAll"]
    /\ Last(app.output_lines) = LoadingNotice
    /\ Len(app.tree.nodes) > 0
    /\ Len(tasks) = 1

(***************************************************************************)
(* Discovery that succeeds or fails, followed by manual runs.  The tasks   *)
(* and the loop are scheduled fairly: the discovery task runs to its end   *)
(* and the loop receives whatever is in the channel.                       *)
(***************************************************************************)
DiscoveryKeys == {"RunAll", "Select"}

NextDiscovery ==
    NextSystem(DiscoveryKeys, MaxDiscoveryKeys, MaxDiscoveryTasks, {LinePassed},
               MaxDiscoveryLines, BOOLEAN)

SpecDiscovery ==
    /\ Init
    /\ [][NextDiscovery]_vars
    /\ WF_vars(DiscoverySendRunner)
    /\ WF_vars(RunnerReady)
    /\ WF_vars(\E ok \in BOOLEAN : DiscoveryFinish(ok, <<FArel>>))
    /\ WF_vars(Recv)

\* the discovery task has ended without a DiscoveryComplete
DiscoveryFailed ==
    /\ tasks[1].pc = "done"
    /\ \A c \in 1..Len(chan) : chan[c].ev.type # "DiscoveryComplete"
    /\ \A h \in 1..Len(handled) : handled[h].ev.type # "DiscoveryComplete"

OnlyKeysHandled == \A h \in 1..Len(handled) : handled[h].ev.type = "Key"

\* C20: after a failed discovery the discovering flag is eventually cleared,
\* the tree is empty as long as no run has reported, and a RunAll pressed
\* afterwards is started by the runner.
C20_DiscoveryFailureHandled ==
    /\ DiscoveryFailed ~> ~app.discovering
    /\ [](DiscoveryFailed /\ OnlyKeysHandled => app.tree.nodes = <<>>)
    /\ [][(DiscoveryFailed /\ test_runner /\ HandlesKey("RunAll")) =>
            /\ Len(tasks') = Len(tasks) + 1
            /\ Last(tasks').kind = "run_all"]_vars

(***************************************************************************)
(* Progress counters and the end of a run.                                 *)
(***************************************************************************)
\* C21: a RunAll key leaves progress_done and progress_total as they were, and
\* the handling of a RunStarted event sets both to zero.
C21_CountersZeroedAtRunStarted ==
    [][/\ HandlesKey("RunAll") =>
            /\ app'.progress_done = app.progress_done
            /\ app'.progress_total = app.progress_total
       /\ HandlesEvent({"RunStarted"}) =>
            /\ app'.progress_done = 0
            /\ app'.progress_total = 0]_vars

\* the position in handled of the last RunStarted, 0 when there is none
LastRunStarted ==
    LET S == {h \in 1..Len(handled) : handled[h].ev.type = "RunStarted"}
    IN  IF S = {} THEN 0 ELSE CHOOSE h \in S : \A g \in S : g <= h

RECURSIVE SumCounts(_, _)
SumCounts(from, to) ==
    IF from > to
    THEN 0
    ELSE (IF handled[from].ev.type = "TestsCollected" THEN handled[from].ev.count ELSE 0)
         + SumCounts(from + 1, to)

\* C22: after a RunStarted, progress_done is the number of TestFinished events
\* handled since the last RunStarted and progress_total is the sum of the counts
\* of the TestsCollected events handled since then; a runner event other than
\* these three changes neither counter.
C22_CountersCountEvents ==
    /\ [](LastRunStarted > 0 =>
            /\ app.progress_done =
                Cardinality({h \in (LastRunStarted + 1)..Len(handled) :
                                handled[h].ev.type = "TestFinished"})
            /\ app.progress_total = SumCounts(LastRunStarted + 1, Len(handled)))
    /\ [][(Len(handled') = Len(handled) + 1
            /\ Last(handled').ev.type \notin
                    {"Key", "Refresh", "RunStarted", "TestsCollected", "TestFinished"}) =>
            /\ app'.progress_done = app.progress_done
            /\ app'.progress_total = app.progress_total]_vars

\* C23: the handling of RunFinished clears running and full_run, stores the
\* counts of the payload as the summary whatever summary was stored before,
\* and leaves the tree as it was.
C23_RunFinishedEffect ==
    [][HandlesEvent({"RunFinished"}) =>
        LET sent == Last(handled').ev.summary
        IN  /\ ~app'.running
            /\ ~app'.full_run
            /\ app'.summary # None
            /\ app'.summary[1].total = sent.total
            /\ app'.summary[1].passed = sent.passed
            /\ app'.summary[1].failed = sent.failed
            /\ app'.summary[1].skipped = sent.skipped
            /\ app'.tree = app.tree]_vars

\* the RunFinished of a second run, with other counts, has just been handled
\* while a test of the tree had a result
C23_Witness ==
    /\ Len(handled) >= 3
    /\ Last(handled).ev.type = "RunFinished"
    /\ \E h \in 1..(Len(handled) - 1) :
        /\ handled[h].ev.type = "RunFinished"
        /\ handled[h].ev.summary.total # Last(handled).ev.summary.total
    /\ app.summary[1].total = Last(handled).ev.summary.total
    /\ \E i \in 1..Len(app.tree.nodes) : app.tree.nodes[i].result # None

(***************************************************************************)
(* models/tree.rs: add_child called with any parent id, on the trees the   *)
(* reducer builds.  Ids are positions from 1, so the id the next node will *)
(* get is Len(nodes) + 1.                                                  *)
(***************************************************************************)
\* tree.rs 58-59: the node is pushed first, then nodes[parent_id] is indexed;
\* the index is in bounds for every existing node and for the node just pushed
add_child_outcome(tree, parent_id) ==
    IF parent_id \in 1..(Len(tree.nodes) + 1) THEN "ok" ELSE "panic"

\* the tree at the return of the call, or at the panic of the index expression
add_child_any(tree, parent_id, kind, name, path) ==
    IF add_child_outcome(tree, parent_id) = "ok"
    THEN add_child(tree, parent_id, kind, name, path)
    ELSE add_node(tree, kind, name, path, Some(parent_id))

Panicked ==
    \E h \in 1..Len(handled) :
        handled[h].ev.type = "add_child" /\ handled[h].ev.outcome = "panic"

AddChildCall(parent_id) ==
    /\ ~Panicked
    /\ steps < MaxAddChildSteps
    /\ steps' = steps + 1
    /\ app' = [app EXCEPT !.tree = add_child_any(@, parent_id, "Test", <<"n">>, None)]
    /\ handled' = Append(handled,
            [src |-> 0, line |-> 0,
             ev |-> [type |-> "add_child", parent_id |-> parent_id,
                     outcome |-> add_child_outcome(app.tree, parent_id)],
             applied |-> FALSE])
    /\ UNCHANGED <<test_runner, tasks, chan, watch_stdin>>

NextAddChild ==
    \/ \E e \in {[type |-> "FileStarted", path |-> FB],
                 [type |-> "TestStarted", file |-> FA, name |-> NST]} :
            ~Panicked /\ steps < MaxAddChildSteps /\ DeliverTree(e)
    \/ \E p \in 1..(Len(app.tree.nodes) + 2) : AddChildCall(p)

SpecAddChild == InitReady /\ [][NextAddChild]_vars

\* C24: add_child with a parent id that names no existing node fails and
\* leaves the tree as it was: no node is added, no node is its own parent or
\* child, and the children of every node are unchanged.
C24_AddChildInvalidParent ==
    [][(HandlesEvent({"add_child"})
            /\ Last(handled').ev.parent_id \notin 1..Len(app.tree.nodes)) =>
        /\ Last(handled').ev.outcome = "panic"
        /\ Len(app'.tree.nodes) = Len(app.tree.nodes)
        /\ \A i \in 1..Len(app'.tree.nodes) :
            /\ app'.tree.nodes[i].parent # Some(i)
            /\ \A c \in 1..Len(app'.tree.nodes[i].children) :
                    app'.tree.nodes[i].children[c] # i
        /\ \A i \in 1..Len(app.tree.nodes) :
            app'.tree.nodes[i].children = app.tree.nodes[i].children]_vars

(***************************************************************************)
(* Navigation.  Every iteration of the loop draws a frame first, which     *)
(* stores the inner heights of the two list panels and slices the lists at *)
(* their scroll offsets; an iteration that ends with the tick only draws.  *)
(***************************************************************************)
\* actions.rs 362-376 and main.rs 118-130: the actions a key can give
triggers(filter_active, action) ==
    IF filter_active
    THEN action \in {"FilterExit", "FilterApply", "FilterBackspace",
                     "NavigateUp", "NavigateDown"} \cup DOMAIN FilterChar
    ELSE action \notin {"FilterExit", "FilterApply", "FilterBackspace"} \cup DOMAIN FilterChar

\* ui/test_tree.rs 34-36 and ui/failure_list.rs 24-26: the slice
\* list[offset..min(offset + height, len)] panics when offset is past the end
draw_panics(a) ==
    \/ a.tree_scroll_offset > Len(visible_tree_nodes(a))
    \/ a.failed_scroll_offset > Len(failed_nodes(a.tree))

\* ui/test_tree.rs 31-32 and ui/failure_list.rs 21-22
draw(a, size) ==
    [a EXCEPT !.tree_viewport_height = size.tree, !.failed_viewport_height = size.failed]

\* the inner heights the layout gives for the sizes of the terminal
NavSizes == {[tree |-> 1, failed |-> 1], [tree |-> 2, failed |-> 1]}

Draw(size) ==
    /\ ~app.should_quit
    /\ ~draw_panics(app)
    /\ app' = draw(app, size)
    /\ UNCHANGED <<test_runner, tasks, chan, watch_stdin, handled, steps>>

\* the frame of this iteration has been drawn and the key gives the action
DrawnKey(action) ==
    /\ ~draw_panics(app)
    /\ app.tree_viewport_height > 0
    /\ triggers(app.filter_active, action)
    /\ Key(action)

DrawnDeliver(e) ==
    /\ ~draw_panics(app)
    /\ app.tree_viewport_height > 0
    /\ DeliverTree(e)

NextNav ==
    \/ \E size \in NavSizes : Draw(size)
    \/ \E a \in {"NavigateUp", "NavigateDown", "ScrollUp", "ScrollDown", "JumpToStart", "JumpToEnd",
                 "JumpToPrevFile", "JumpToNextFile", "Collapse", "CollapseAll", "Expand", "ExpandAll",
                 "FocusNext", "FocusPrevious", "FilterEnter", "FilterInput(A)", "FilterExit"} :
            steps < MaxNavSteps /\ DrawnKey(a)
    \/ \E e \in {[type |-> "TestStarted", file |-> FA, name |-> NST],
                 [type |-> "TestFinished", file |-> FA, name |-> NT,
                  result |-> TestResultOf("Failed"), location |-> None],
                 [type |-> "TestFinished", file |-> FA, name |-> NT,
                  result |-> TestResultOf("Passed"), location |-> None],
                 [type |-> "TestFinished", file |-> FB, name |-> NT,
                  result |-> TestResultOf("Failed"), location |-> None]} :
            steps < MaxNavSteps /\ DrawnDeliver(e)

SpecNav == InitReady /\ [][NextNav]_vars

NextFilter ==
    \/ Draw([tree |-> 2, failed |-> 1])
    \/ \E a \in {"FilterEnter", "FilterInput(A)", "FilterBackspace", "FilterExit", "FilterApply",
                 "NavigateDown"} :
            steps < MaxFilterSteps /\ DrawnKey(a)
    \/ \E e \in {[type |-> "TestStarted", file |-> FA, name |-> NT]} :
            steps < MaxFilterSteps /\ DrawnDeliver(e)

SpecFilter == InitReady /\ [][NextFilter]_vars

\* a key was handled in the tree panel
TreePanelKey(actions) ==
    /\ HandlesEvent({"Key"})
    /\ Last(handled').ev.action \in actions
    /\ app.active_panel = "TestTree"

NavigationActions ==
    {"NavigateUp", "NavigateDown", "ScrollUp", "ScrollDown", "JumpToStart", "JumpToEnd",
     "JumpToPrevFile", "JumpToNextFile", "Collapse", "CollapseAll"}

RowBound(a) ==
    IF Len(visible_tree_nodes(a)) > 1 THEN Len(visible_tree_nodes(a)) ELSE 1

\* C25: the selected tree index is smaller than max(1, rows of the filtered
\* visible list) in every reachable state, and after every navigation action
\* in the tree panel.
C25_SelectionInRange ==
    /\ [](app.selected_tree_index < RowBound(app))
    /\ [][TreePanelKey(NavigationActions) =>
            app'.selected_tree_index < RowBound(app')]_vars

\* NavigateDown at the last of several rows has just been clamped
C25_Witness ==
    /\ Len(handled) >= 2
    /\ Last(handled).ev = [type |-> "Key", action |-> "NavigateDown"]
    /\ handled[Len(handled) - 1].ev = [type |-> "Key", action |-> "JumpToEnd"]
    /\ app.active_panel = "TestTree"
    /\ Len(visible_tree_nodes(app)) >= 2
    /\ app.selected_tree_index = Len(visible_tree_nodes(app)) - 1

\* C26: an action that changes the filter query (FilterInput, FilterBackspace
\* removing a character, FilterExit clearing a non-empty query) sets the
\* selected tree index to 0.
C26_FilterChangeResetsSelection ==
    [][(HandlesEvent({"Key"}) /\ app'.filter_query # app.filter_query) =>
            app'.selected_tree_index = 0]_vars

\* a key was handled in the failed-list panel
FailedPanelKey(actions) ==
    /\ HandlesEvent({"Key"})
    /\ Last(handled').ev.action \in actions
    /\ app.active_panel = "FailedList"

InWindow(selected, offset, height) == offset <= selected /\ selected < offset + height

\* C27: after a navigation action in the tree panel or the failed-list panel
\* with a viewport height above 0 the panel's offset satisfies
\* offset <= selected < offset + height, and the offset is unchanged when the
\* new selection was inside the window already.
C27_SelectionInWindow ==
    /\ [][(TreePanelKey(NavigationActions) /\ app.tree_viewport_height > 0) =>
            /\ InWindow(app'.selected_tree_index, app'.tree_scroll_offset,
                        app'.tree_viewport_height)
            /\ InWindow(app'.selected_tree_index, app.tree_scroll_offset,
                        app.tree_viewport_height)
                    => app'.tree_scroll_offset = app.tree_scroll_offset]_vars
    /\ [][(FailedPanelKey(NavigationActions) /\ app.failed_viewport_height > 0) =>
            /\ InWindow(app'.selected_failed_index, app'.failed_scroll_offset,
                        app'.failed_viewport_height)
            /\ InWindow(app'.selected_failed_index, app.failed_scroll_offset,
                        app.failed_viewport_height)
                    => app'.failed_scroll_offset = app.failed_scroll_offset]_vars

(***************************************************************************)
(* The visible list.                                                       *)
(***************************************************************************)
\* the position of x in seq, from 1
IndexOf(seq, x) == CHOOSE k \in 1..Len(seq) : seq[k] = x

\* the positions taken on the way from the root list down to node i
RECURSIVE IndexPath(_, _)
IndexPath(tree, i) ==
    IF tree.nodes[i].parent = None
    THEN <<IndexOf(tree.root_ids, i)>>
    ELSE Append(IndexPath(tree, tree.nodes[i].parent[1]),
                IndexOf(tree.nodes[tree.nodes[i].parent[1]].children, i))

\* p comes before q in pre-order: p is a proper prefix of q, or p is smaller
\* at the first position where they differ
PreOrderBefore(p, q) ==
    \/ Len(p) < Len(q) /\ SubSeq(q, 1, Len(p)) = p
    \/ \E k \in 1..min(Len(p), Len(q)) :
        /\ SubSeq(p, 1, k - 1) = SubSeq(q, 1, k - 1)
        /\ p[k] < q[k]

ListsInPreOrder(tree, rows, ids) ==
    /\ {rows[k][1] : k \in 1..Len(rows)} = ids
    /\ Len(rows) = Cardinality(ids)
    /\ \A k \in 1..Len(rows) : rows[k][2] = Cardinality(Ancestors(tree, rows[k][1]))
    /\ \A j, k \in 1..Len(rows) :
        j < k => PreOrderBefore(IndexPath(tree, rows[j][1]), IndexPath(tree, rows[k][1]))

\* C28: visible_nodes lists the nodes whose strict ancestors are all expanded,
\* each once, in pre-order, with the number of its ancestors as depth; after
\* collapse_all these are the roots at depth 0 and after expand_all all nodes.
C28_VisibleNodes ==
    LET tree == app.tree
        all  == 1..Len(tree.nodes)
    IN  /\ ListsInPreOrder(tree, visible_nodes(tree),
                {i \in all : \A a \in Ancestors(tree, i) : tree.nodes[a].expanded})
        /\ visible_nodes(collapse_all(tree)) =
                [k \in 1..Len(tree.root_ids) |-> <<tree.root_ids[k], 0>>]
        /\ ListsInPreOrder(expand_all(tree), visible_nodes(expand_all(tree)), all)

\* two roots, the first with a collapsed suite that hides its test
C28_Witness ==
    /\ Len(app.tree.root_ids) = 2
    /\ Len(visible_nodes(app.tree)) = 3
    /\ \E i \in 1..Len(app.tree.nodes) :
        /\ app.tree.nodes[i].parent # None
        /\ app.tree.nodes[i].children # <<>>
        /\ ~app.tree.nodes[i].expanded

(***************************************************************************)
(* Stored results.                                                         *)
(***************************************************************************)
\* C29: a node with a stored result is a Test node whose status is Passed or
\* Failed.
C29_ResultOnlyOnTerminalTest ==
    \A i \in 1..Len(app.tree.nodes) :
        app.tree.nodes[i].result # None =>
            /\ app.tree.nodes[i].kind = "Test"
            /\ app.tree.nodes[i].status \in {"Passed", "Failed"}

(***************************************************************************)
(* app/actions.rs: parse_line_col_from_stack, applied to every stack text  *)
(* of up to MaxStackLen characters.                                        *)
(***************************************************************************)

DigitValue ==
    [c \in {"0", "1", "2", "3", "4", "5", "6", "7", "8", "9"} |->
        CASE c = "0" -> 0 [] c = "1" -> 1 [] c = "2" -> 2 [] c = "3" -> 3 [] c = "4" -> 4
          [] c = "5" -> 5 [] c = "6" -> 6 [] c = "7" -> 7 [] c = "8" -> 8 [] c = "9" -> 9]

RECURSIVE digits_value(_)
digits_value(s) ==
    IF s = <<>> THEN 0 ELSE 10 * digits_value(SubSeq(s, 1, Len(s) - 1)) + DigitValue[s[Len(s)]]

\* str::parse::<u32>().ok(): decimal digits after an optional '+'; a text of
\* MaxStackLen digits is below u32::MAX, so no parse overflows
parse_u32(s) ==
    LET d == IF Len(s) > 0 /\ s[1] = "+" THEN Tail(s) ELSE s
    IN  IF /\ d # <<>>
           /\ \A k \in 1..Len(d) : d[k] \in DOMAIN DigitValue
        THEN Some(digits_value(d))
        ELSE None

\* str::split_whitespace: the maximal runs of characters that are not whitespace
RECURSIVE split_whitespace(_)
split_whitespace(s) ==
    LET t == trim_start(s)
    IN  IF t = <<>>
        THEN <<>>
        ELSE LET ends == {k \in 1..Len(t) : is_whitespace(t[k])}
                 n    == IF ends = {} THEN Len(t)
                         ELSE (CHOOSE k \in ends : \A j \in ends : k <= j) - 1
             IN  <<SubSeq(t, 1, n)>> \o split_whitespace(SubSeq(t, n + 1, Len(t)))

\* str::trim_matches(|c| c == '(' || c == ')')
RECURSIVE trim_matches(_)
trim_matches(s) ==
    IF s # <<>> /\ s[1] \in {"(", ")"}
    THEN trim_matches(Tail(s))
    ELSE IF s # <<>> /\ s[Len(s)] \in {"(", ")"}
         THEN trim_matches(SubSeq(s, 1, Len(s) - 1))
         ELSE s

\* s.rsplitn(2, ':'): the text after the last ':' first, then the text before it
rsplit_once(s) ==
    LET colons == {k \in 1..Len(s) : s[k] = ":"}
    IN  IF colons = {}
        THEN <<s>>
        ELSE LET k == CHOOSE c \in colons : \A j \in colons : j <= c
             IN  <<SubSeq(s, k + 1, Len(s)), SubSeq(s, 1, k - 1)>>

\* s.rsplitn(3, ':').collect(): at most three parts, the last field first
rsplitn3(s) ==
    LET first == rsplit_once(s)
    IN  IF Len(first) = 1
        THEN first
        ELSE <<first[1]>> \o rsplit_once(first[2])

RECURSIVE parse_segments(_)
parse_segments(segments) ==
    IF segments = <<>>
    THEN None
    ELSE LET parts == rsplitn3(trim_matches(Head(segments)))
         IN  IF Len(parts) >= 2 /\ parse_u32(parts[2]) # None
             THEN Some(<<parse_u32(parts[2]), parse_u32(parts[1])>>)
             ELSE parse_segments(Tail(segments))

parse_line_col_from_stack(stack) == parse_segments(split_whitespace(stack))

\* actions.rs 334-338: the stack trace of the failure is parsed
ParseStack(stack) ==
    /\ steps' = steps + 1
    /\ handled' = Append(handled,
            [src |-> 0, line |-> 0,
             ev |-> [type |-> "parse_line_col_from_stack", stack |-> stack,
                     result |-> parse_line_col_from_stack(stack)],
             applied |-> FALSE])
    /\ UNCHANGED <<app, test_runner, tasks, chan, watch_stdin>>

NextStack ==
    /\ steps < MaxStackCalls
    /\ \E stack \in UNION {[1..n -> {"x", ":", "4", "(", ")", " "}] : n \in 0..MaxStackLen} :
            ParseStack(stack)

SpecStack == InitReady /\ [][NextStack]_vars

\* the tokens of a text: its pieces between blanks, without the parentheses
\* at their ends
Tokens(stack) ==
    LET segs == split_whitespace(stack)
    IN  [k \in 1..Len(segs) |-> trim_matches(segs[k])]

\* the last two ':'-separated fields of the token are integers
HasIntegerPair(token) ==
    /\ Len(rsplitn3(token)) >= 2
    /\ parse_u32(rsplitn3(token)[1]) # None
    /\ parse_u32(rsplitn3(token)[2]) # None

\* C30: the parser returns the line and the column of the first token whose
\* last two ':'-separated fields are both integers, and none when no token has
\* such a pair.
C30_StackParse ==
    \A h \in 1..Len(handled) :
        handled[h].ev.type = "parse_line_col_from_stack" =>
            LET tokens == Tokens(handled[h].ev.stack)
                pairs  == {k \in 1..Len(tokens) : HasIntegerPair(tokens[k])}
            IN  IF pairs = {}
                THEN handled[h].ev.result = None
                ELSE LET k == CHOOSE p \in pairs : \A q \in pairs : p <= q
                     IN  handled[h].ev.result =
                            Some(<<parse_u32(rsplitn3(tokens[k])[2]),
                                   parse_u32(rsplitn3(tokens[k])[1])>>)

(***************************************************************************)
(* runner/vitest.rs: the temp files of an invocation.  The steps of        *)
(* spawn_and_stream between its await points, with the reporter file and   *)
(* the workspace configuration file the invocation writes.                 *)
(***************************************************************************)
\* vitest.rs 426-441, 506-521 and 231-300: find_vitest_configs, the temp files,
\* Command::spawn.  configs: find_vitest_configs found a config, so the caller
\* writes both files; otherwise spawn_and_stream writes the reporter file.
\* ok = FALSE is a failure to write a file or to spawn: `?` returns and drops
\* the files written so far.
SpawnWithFiles(t, configs, ok) ==
    /\ tasks[t].kind \in OneShotKinds \cup {"run_all_watch"}
    /\ tasks[t].pc = "spawn"
    /\ IF ok
       THEN /\ tasks' = [tasks EXCEPT
                    ![t].pc = "reading",
                    ![t].child = "alive",
                    ![t].writer = IF tasks[t].kind = "run_all_watch" THEN "open" ELSE @,
                    ![t].reporter_file = "exists",
                    ![t].workspace_config = IF configs THEN "exists" ELSE @]
            /\ watch_stdin' = IF tasks[t].kind = "run_all_watch" THEN Some(t) ELSE watch_stdin
            /\ UNCHANGED chan
       ELSE /\ tasks' = [tasks EXCEPT ![t].pc = "done", ![t].reporter_file = "deleted"]
            /\ chan' = send(chan, tag(t, 0,
                    <<[type |-> "Error", message |-> wrapper_error(tasks[t])]>> \o
                    (IF tasks[t].kind = "run_all_watch"
                     THEN <<[type |-> "WatchStopped"]>>
                     ELSE <<>>)))
            /\ UNCHANGED watch_stdin
    /\ UNCHANGED <<app, test_runner, handled, steps>>

\* vitest.rs 341-348: stderr_handle.await has returned (the child has closed its
\* stderr, or a read of it has failed); drop(reporter_file) where
\* spawn_and_stream wrote it.  A watch session goes on to stop_watch and returns,
\* which drops the ChildGuard and then the caller's files (vitest.rs 518-520),
\* and the wrapper sends WatchStopped (main.rs 161); a one-shot run goes on to
\* child.wait().
AfterStderr(t) ==
    /\ tasks[t].pc = "after_loop"
    /\ LET dropped == IF tasks[t].workspace_config = "none"
                      THEN [tasks[t] EXCEPT !.reporter_file = "deleted"]
                      ELSE tasks[t]
       IN  IF tasks[t].kind = "run_all_watch"
           THEN /\ tasks' = [tasks EXCEPT ![t] =
                        drop_files([dropped EXCEPT
                            !.pc = "done", !.kill_sent = TRUE, !.child = "exited",
                            !.exit = IF @ = None THEN Some(-1) ELSE @])]
                /\ watch_stdin' = None
                /\ chan' = send(chan, tag(t, 0, <<[type |-> "WatchStopped"]>>))
           ELSE /\ tasks' = [tasks EXCEPT ![t] = [dropped EXCEPT !.pc = "waiting"]]
                /\ UNCHANGED <<watch_stdin, chan>>
    /\ UNCHANGED <<app, test_runner, handled, steps>>

\* vitest.rs 350-359 and 438-441: child.wait() has returned; the Error event of
\* a non-zero exit, the return, the caller's files
Waited(t) ==
    /\ tasks[t].pc = "waiting"
    /\ tasks[t].child = "exited"
    /\ tasks' = [tasks EXCEPT ![t] = drop_files([@ EXCEPT !.pc = "done", !.kill_sent = TRUE])]
    /\ chan' = send(chan, tag(t, 0, exit_events(tasks[t])))
    /\ UNCHANGED <<app, test_runner, watch_stdin, handled, steps>>

NextFiles ==
    \/ DiscoverySendRunner
    \/ RunnerReady
    \/ \E a \in {"RunAll", "ToggleWatch"} :
            steps < MaxFilesKeys /\ Key(a) /\ Len(tasks') <= MaxFilesTasks
    \/ \E t \in 1..Len(tasks) : TryRunViaWatch(t)
    \/ \E t \in 1..Len(tasks) : \E configs, ok \in BOOLEAN : SpawnWithFiles(t, configs, ok)
    \/ \E t \in 1..Len(tasks) : \E l \in {LinePassed, [kind |-> "bytes"]} :
            Len(tasks[t].lines) < MaxFilesLines /\ ReadLine(t, l)
    \/ \E t \in 1..Len(tasks) : \E code \in ExitCodes : ChildExit(t, code)
    \/ \E t \in 1..Len(tasks) : ReadEof(t)
    \/ \E t \in 1..Len(tasks) : AfterStderr(t)
    \/ \E t \in 1..Len(tasks) : Waited(t)
    \/ Recv

SpecFiles == Init /\ [][NextFiles]_vars

\* C31: the reporter file and the workspace configuration file of an
\* invocation are not deleted while the invocation's child process is alive.
C31_TempFilesOutliveChild ==
    \A t \in 1..Len(tasks) :
        tasks[t].child = "alive" =>
            /\ tasks[t].reporter_file # "deleted"
            /\ tasks[t].workspace_config # "deleted"

ReceivesRunStarted(kinds) ==
    /\ chan # <<>>
    /\ Head(chan).ev.type = "RunStarted"
    /\ tasks[Head(chan).src].kind \in kinds
    /\ chan' = Tail(chan)
    /\ handled' # handled

\* C33: a RunStarted event of a single-file or single-test run leaves the
\* tree (statuses and results included) and the raw output as they were.
C33_SelectiveRunKeepsTree ==
    [][ReceivesRunStarted({"run_file", "run_test"}) =>
            /\ app'.tree = app.tree
            /\ app'.output_lines = app.output_lines]_vars

(***************************************************************************)
(* Overlapping one-shot runs that report to the end: the files are         *)
(* discovered, two keys start runs, and each child writes the whole report *)
(* of its run.                                                             *)
(***************************************************************************)

NextOverlap ==
    \/ DiscoverySendRunner
    \/ RunnerReady
    \/ DiscoveryFinish(TRUE, <<FArel, FB>>)
    \/ \E a \in {"RunAll", "Select"} :
            steps < MaxOverlapKeys /\ Key(a) /\ Len(tasks') <= MaxOverlapTasks
    \/ \E t \in 1..Len(tasks) : TryRunViaWatch(t)
    \/ \E t \in 1..Len(tasks) : Spawn(t, TRUE)
    \/ \E t \in 1..Len(tasks) :
            /\ Len(tasks[t].lines) < MaxOverlapLines
            /\ Len(tasks[t].lines) < Len(report(tasks[t]))
            /\ ReadLine(t, report(tasks[t])[Len(tasks[t].lines) + 1])
    \/ Recv

SpecOverlap == Init /\ [][NextOverlap]_vars

\* the run of task t has been started (its process is running) and the loop
\* has not handled a RunFinished event of it
InFlight(t) ==
    /\ tasks[t].kind \in OneShotKinds
    /\ tasks[t].child = "alive"
    /\ ~\E h \in 1..Len(handled) :
            handled[h].src = t /\ handled[h].ev.type = "RunFinished"

\* C34: the running flag is true while a started run has not delivered its
\* RunFinished.
C34_RunningWhileInFlight ==
    (\E t \in 1..Len(tasks) : InFlight(t)) => app.running

(***************************************************************************)
(* One requested run to its end, scheduled fairly: the tasks run on, a     *)
(* spawned child exits, and the loop receives whatever is in the channel.  *)
(* The child may exit at any point of its report, with any exit code.      *)
(***************************************************************************)

TaskStep ==
    \/ \E t \in 1..Len(tasks) : TryRunViaWatch(t)
    \/ \E t \in 1..Len(tasks) : \E ok \in BOOLEAN : Spawn(t, ok)
    \/ \E t \in 1..Len(tasks) : \E code \in ExitCodes : ChildExit(t, code)
    \/ \E t \in 1..Len(tasks) : ReadEof(t)
    \/ \E t \in 1..Len(tasks) : Finish(t)

NextLive ==
    \/ DiscoverySendRunner
    \/ RunnerReady
    \/ DiscoveryFinish(TRUE, <<FArel>>)
    \/ \E a \in {"RunAll", "Select"} :
            steps < MaxLiveKeys /\ Key(a) /\ Len(tasks') <= MaxLiveTasks
    \/ TaskStep
    \/ \E t \in 1..Len(tasks) :
            /\ Len(tasks[t].lines) < MaxLiveLines
            /\ Len(tasks[t].lines) < Len(report(tasks[t]))
            /\ ReadLine(t, report(tasks[t])[Len(tasks[t].lines) + 1])
    \/ Recv

SpecLive ==
    /\ Init
    /\ [][NextLive]_vars
    /\ WF_vars(DiscoverySendRunner)
    /\ WF_vars(RunnerReady)
    /\ WF_vars(DiscoveryFinish(TRUE, <<FArel>>))
    /\ WF_vars(TaskStep)
    /\ WF_vars(Recv)

\* a key that requests a run has been handled with the runner present
RunRequested ==
    \E h \in 1..Len(handled) :
        /\ handled[h].ev.type = "Key"
        /\ handled[h].ev.action \in {"RunAll", "Select", "RerunFailed"}
        /\ Len(tasks) > 1

\* C35: after a run is requested the running flag eventually becomes false.
C35_RunningEventuallyFalse == RunRequested ~> ~app.running

\* the WatchStopped event of task t is still in the channel
WatchStoppedPending(t) ==
    \E c \in 1..Len(chan) : chan[c].src = t /\ chan[c].ev.type = "WatchStopped"

\* the handle held is that of a watch task that runs or whose WatchStopped
\* event the loop has yet to receive
HoldsLiveWatch ==
    /\ app.watch_handle # None
    /\ tasks[app.watch_handle[1]].kind = "run_all_watch"
    /\ \/ tasks[app.watch_handle[1]].pc \notin {"done", "aborted"}
       \/ WatchStoppedPending(app.watch_handle[1])

\* the loop receives, in this step, the WatchStopped event of a watch session
\* other than the one whose handle it holds
ReceivesStaleWatchStopped ==
    /\ chan # <<>>
    /\ Head(chan).ev.type = "WatchStopped"
    /\ app.watch_handle # Some(Head(chan).src)
    /\ chan' = Tail(chan)
    /\ handled' # handled

\* C36: with watch_mode false no watch process is alive, with watch_mode true
\* the handle of the live watch task is held, and the WatchStopped event of an
\* earlier session leaves the flag and the handle of a later session alone.
C36_WatchStateAgrees ==
    /\ [](~app.should_quit =>
            /\ ~app.watch_mode => ~watch_process_alive
            /\ app.watch_mode => HoldsLiveWatch)
    /\ [][ReceivesStaleWatchStopped =>
            /\ app'.watch_mode = app.watch_mode
            /\ app'.watch_handle = app.watch_handle]_vars

\* C37: the sender registered by a watch session is not cleared while the
\* process of that session stays alive.
C37_SenderStaysRegistered ==
    [][\A w \in 1..Len(tasks) :
          (/\ watch_stdin = Some(w)
           /\ tasks[w].kind = "run_all_watch"
           /\ tasks[w].child = "alive"
           /\ tasks'[w].child = "alive")
          => watch_stdin' # None]_vars

\* C38: the tree scroll offset is at most the number of rows of the filtered
\* visible list, so the window the renderer reads is a valid range.
C38_TreeOffsetInRange ==
    app.tree_scroll_offset <= Len(visible_tree_nodes(app))

(***************************************************************************)
(* The failed list under tests that fail and pass again and under the keys *)
(* that move in the list and start runs.                                   *)
(***************************************************************************)

NextFailedList ==
    \/ Draw([tree |-> 1, failed |-> 1])
    \/ \E a \in {"FocusNext", "NavigateDown", "JumpToEnd", "RunAll", "RerunFailed"} :
            steps < MaxFailedSteps /\ DrawnKey(a)
    \/ \E e \in {[type |-> "TestFinished", file |-> f, name |-> NT,
                  result |-> TestResultOf("Failed"), location |-> None] : f \in {FA, FB}}
                \cup {[type |-> "TestStarted", file |-> FA, name |-> NT],
                      [type |-> "TestFinished", file |-> FA, name |-> NT,
                       result |-> TestResultOf("Passed"), location |-> None]} :
            steps < MaxFailedSteps /\ DrawnDeliver(e)

SpecFailedList == InitReady /\ [][NextFailedList]_vars

\* C39: the failed-list scroll offset is at most the number of Failed Test
\* nodes, and the failed-list selected index is smaller than max(1, that
\* number).
C39_FailedListInRange ==
    LET n == Len(failed_nodes(app.tree))
    IN  /\ app.failed_scroll_offset <= n
        /\ app.selected_failed_index < (IF n > 1 THEN n ELSE 1)

\* C40: the done counter of the progress is at most its total counter.
C40_DoneAtMostTotal == app.progress_done <= app.progress_total

====
